---- MODULE Spec2Model ----
(***************************************************************************)
(* Model of the content-driven design-decision engine of cms-ai            *)
(* (server/tools/renderer): slide content analysis, layout detection,      *)
(* chart data detection, theme resolution and the render pipeline that     *)
(* drives them.                                                            *)
(*                                                                         *)
(* Python str values are TLA+ strings; TLC evaluates Len, SubSeq, Head,   *)
(* Tail and \o on them, so substring search, lower-casing and splitting    *)
(* are computed character by character as the Python code does.            *)
(***************************************************************************)
EXTENDS Integers, Sequences, FiniteSets, TLC

VARIABLES
    sl_pc,        \* per-slide decision: "input", "analyzed", "detected"
    sl_title,     \* slide_title handed to analyze_content / detect_layout
    sl_items,     \* body_items handed to analyze_content / detect_layout
    sl_analysis,  \* the dict analyze_content returned
    sl_layout     \* the str detect_layout returned

slide_vars == <<sl_pc, sl_title, sl_items, sl_analysis, sl_layout>>

VARIABLES
    dp_calls,     \* number of detect_data_pattern calls made so far
    dp_items,     \* content_items of the last call
    dp_result     \* the dict the last call returned

data_vars == <<dp_calls, dp_items, dp_result>>

VARIABLES
    has_ai,        \* self.ai_generator is set (API key given, remote mode)
    catalog,       \* colors dict of every DesignTemplateLibrary theme object
    runs,          \* render_with_ai_design calls that have returned or raised
    pc,            \* "idle", "awaiting_ai", "returned", "raised"
    spec_data,     \* argument of the running call: tokens.colors and layouts
    company_info,  \* argument of the running call is a non-empty dict
    ai_request,    \* what the remote request did: "none", a failure, or "ok"
    ai_analysis,   \* local ai_analysis of the running call
    design_theme,  \* local design_theme: the catalog theme object it refers to
    slides         \* layout_type of every slide added to the presentation

render_vars ==
    <<has_ai, catalog, runs, pc, spec_data, company_info, ai_request,
      ai_analysis, design_theme, slides>>

VARIABLES
    fs_pc,        \* font sizing: "idle", "input", "returned"
    fs_weight,    \* visual_weight argument, in tenths
    fs_words,     \* word_count argument
    fs_type,      \* content_type argument
    fs_sizes      \* the dict calculate_optimal_font_sizes returned

font_vars == <<fs_pc, fs_weight, fs_words, fs_type, fs_sizes>>

VARIABLES
    th_calls,     \* number of get_smart_theme calls made so far
    th_args,      \* industry, style, formality, audience of the calls
    th_theme      \* catalog key of the theme the last call returned

theme_vars == <<th_calls, th_args, th_theme>>

\* get_smart_theme has not been called
ThemeIdle ==
    /\ th_calls = 0
    /\ th_args = [industry |-> "", style |-> "", formality |-> "", audience |-> ""]
    /\ th_theme = ""

VARIABLES
    pos_pc,       \* positioning: "idle", "input", "returned"
    pos_args,     \* content_items, slide_width, slide_height, has_title
    pos_result    \* the dict calculate_dynamic_positioning returned

pos_vars == <<pos_pc, pos_args, pos_result>>

\* calculate_dynamic_positioning has not been called
PosIdle ==
    /\ pos_pc = "idle"
    /\ pos_args = [content_items |-> << >>, slide_width |-> 0, slide_height |-> 0, has_title |-> FALSE]
    /\ pos_result = [x |-> 0, y |-> 0, width |-> 0, height |-> 0]

VARIABLES
    vs_pc,        \* validation: "idle", "input", "returned"
    vs_spec,      \* the spec handed to validate_template_spec
    vs_errors     \* the list of ValidationError it returned

val_vars == <<vs_pc, vs_spec, vs_errors>>

\* validate_template_spec has not been called
ValIdle ==
    /\ vs_pc = "idle"
    /\ vs_spec = [dict |-> FALSE]
    /\ vs_errors = << >>

VARIABLES
    cli_pc,       \* validate CLI: "idle", "input", "returned", "raised"
    cli_argv,     \* argv of main
    cli_file,     \* what the file system holds at argv[0]
    cli_out       \* return code, lines on stdout and stderr, validation ran

cli_vars == <<cli_pc, cli_argv, cli_file, cli_out>>

\* the validate CLI has not been started
CliIdle ==
    /\ cli_pc = "idle"
    /\ cli_argv = << >>
    /\ cli_file = [kind |-> "missing"]
    /\ cli_out = [ret |-> -1, stdout |-> << >>, stderr |-> << >>, validated |-> FALSE]

\* the keys a colors mapping can hold: the six of the catalog and one more
ColorNames == {"primary", "secondary", "background", "text", "accent", "light", "brand"}

\* a colors dict without keys; "" stands for a key that is not in the dict
EmptyColors == [k \in ColorNames |-> ""]

VARIABLES
    db_steps,     \* calls made on the builder and on what it built
    db_heap,      \* the dict objects: db_heap[a] is the dict at address a
    db_builder,   \* _colors, _typography (addresses, 0 is None), _theme_name
    db_built,     \* the DesignTheme objects build() returned
    db_last       \* the last call and its colors argument

bld_vars == <<db_steps, db_heap, db_builder, db_built, db_last>>

\* no DesignSystemBuilder exists
BldIdle ==
    /\ db_steps = 0
    /\ db_heap = << >>
    /\ db_builder = [colors |-> 0, typography |-> 0, name |-> "Custom"]
    /\ db_built = << >>
    /\ db_last = [op |-> "", colors |-> EmptyColors]

VARIABLES
    cc_pc,        \* customize_content: "idle", "input", "returned"
    cc_heap,      \* the list objects: cc_heap[a] is the list at address a
    cc_json,      \* json_data['slides']: the slide dicts of the argument
    cc_cust,      \* customizations['slides']: slide number to customization
    cc_result     \* the slides of the dict that was returned

cc_vars == <<cc_pc, cc_heap, cc_json, cc_cust, cc_result>>

\* customize_content has not been called
CcIdle ==
    /\ cc_pc = "idle"
    /\ cc_heap = << >>
    /\ cc_json = << >>
    /\ cc_cust = << >>
    /\ cc_result = << >>

VARIABLES
    cs_pc,        \* generate_color_scheme: "idle", "running", "returned"
    cs_attempt,   \* loop variable attempt of the round that comes next
    cs_requests,  \* requests sent with self.client.post
    cs_industry,  \* style_analysis['industry'], "" when the key is missing
    cs_last,      \* what the last request brought
    cs_result     \* the dict that was returned, as its items in order

cs_vars == <<cs_pc, cs_attempt, cs_requests, cs_industry, cs_last, cs_result>>

\* generate_color_scheme has not been called
CsIdle ==
    /\ cs_pc = "idle"
    /\ cs_attempt = 0
    /\ cs_requests = 0
    /\ cs_industry = ""
    /\ cs_last = [kind |-> "none", color_data |-> << >>]
    /\ cs_result = << >>

\* the state of the library calls that are specified on their own
ext_vars == <<theme_vars, pos_vars, val_vars, cli_vars, bld_vars, cc_vars, cs_vars>>

vars == <<slide_vars, data_vars, render_vars, font_vars, ext_vars>>

ExtIdle == ThemeIdle /\ PosIdle /\ ValIdle /\ CliIdle /\ BldIdle /\ CcIdle /\ CsIdle

\* what a step of theme_vars leaves alone
theme_frame ==
    <<slide_vars, data_vars, render_vars, font_vars,
      pos_vars, val_vars, cli_vars, bld_vars, cc_vars, cs_vars>>

IdleButTheme == PosIdle /\ ValIdle /\ CliIdle /\ BldIdle /\ CcIdle /\ CsIdle

\* what a step of pos_vars leaves alone
pos_frame ==
    <<slide_vars, data_vars, render_vars, font_vars,
      theme_vars, val_vars, cli_vars, bld_vars, cc_vars, cs_vars>>

IdleButPos == ThemeIdle /\ ValIdle /\ CliIdle /\ BldIdle /\ CcIdle /\ CsIdle

\* what a step of val_vars leaves alone
val_frame ==
    <<slide_vars, data_vars, render_vars, font_vars,
      theme_vars, pos_vars, cli_vars, bld_vars, cc_vars, cs_vars>>

IdleButVal == ThemeIdle /\ PosIdle /\ CliIdle /\ BldIdle /\ CcIdle /\ CsIdle

\* what a step of cli_vars leaves alone
cli_frame ==
    <<slide_vars, data_vars, render_vars, font_vars,
      theme_vars, pos_vars, val_vars, bld_vars, cc_vars, cs_vars>>

IdleButCli == ThemeIdle /\ PosIdle /\ ValIdle /\ BldIdle /\ CcIdle /\ CsIdle

\* what a step of bld_vars leaves alone
bld_frame ==
    <<slide_vars, data_vars, render_vars, font_vars,
      theme_vars, pos_vars, val_vars, cli_vars, cc_vars, cs_vars>>

IdleButBld == ThemeIdle /\ PosIdle /\ ValIdle /\ CliIdle /\ CcIdle /\ CsIdle

\* what a step of cc_vars leaves alone
cc_frame ==
    <<slide_vars, data_vars, render_vars, font_vars,
      theme_vars, pos_vars, val_vars, cli_vars, bld_vars, cs_vars>>

IdleButCc == ThemeIdle /\ PosIdle /\ ValIdle /\ CliIdle /\ BldIdle /\ CsIdle

\* what a step of cs_vars leaves alone
cs_frame ==
    <<slide_vars, data_vars, render_vars, font_vars,
      theme_vars, pos_vars, val_vars, cli_vars, bld_vars, cc_vars>>

IdleButCs == ThemeIdle /\ PosIdle /\ ValIdle /\ CliIdle /\ BldIdle /\ CcIdle

(***************************************************************************)
(* Python string primitives                                                *)
(***************************************************************************)

\* s[i-1:i] of Python, 1-based here
Ch(s, i) == SubSeq(s, i, i)

UpperAlphabet == "ABCDEFGHIJKLMNOPQRSTUVWXYZ"

LowerAlphabet == "abcdefghijklmnopqrstuvwxyz"

UpperChars == {Ch(UpperAlphabet, k) : k \in 1..26}

LowerChars == {Ch(LowerAlphabet, k) : k \in 1..26}

LowerOf ==
    [c \in UpperChars |-> Ch(LowerAlphabet, CHOOSE k \in 1..26 : Ch(UpperAlphabet, k) = c)]

\* str.lower() on one character
LowerChar(c) == IF c \in UpperChars THEN LowerOf[c] ELSE c

RECURSIVE Lower(_)
\* str.lower()
Lower(s) ==
    IF Len(s) = 0 THEN ""
    ELSE IF Len(s) = 1 THEN LowerChar(s)
    ELSE LET h == Len(s) \div 2
         IN  Lower(SubSeq(s, 1, h)) \o Lower(SubSeq(s, h + 1, Len(s)))

\* `w in s` for two str values
Contains(s, w) ==
    \E i \in 1..(Len(s) - Len(w) + 1) : SubSeq(s, i, i + Len(w) - 1) = w

\* any(word in s for word in words)
ContainsAny(s, words) == \E k \in 1..Len(words) : Contains(s, words[k])

\* the characters str.split() and str.strip() treat as whitespace
Whitespace == {" ", "\t", "\n"}

IsSpace(c) == c \in Whitespace

\* len(s.split()): the number of maximal runs of non-whitespace characters
WordCount(s) ==
    Cardinality({i \in 1..Len(s) :
        /\ ~IsSpace(Ch(s, i))
        /\ (i = 1 \/ IsSpace(Ch(s, i - 1)))})

RECURSIVE Join(_, _)
\* sep.join(parts)
Join(parts, sep) ==
    IF Len(parts) = 0 THEN ""
    ELSE IF Len(parts) = 1 THEN parts[1]
    ELSE parts[1] \o sep \o Join(Tail(parts), sep)

RECURSIVE SumSeq(_)
SumSeq(ns) == IF Len(ns) = 0 THEN 0 ELSE ns[1] + SumSeq(Tail(ns))

(***************************************************************************)
(* Python exceptions that the modelled code can raise                      *)
(***************************************************************************)

ZeroDivisionError == "ZeroDivisionError"

AttributeError == "AttributeError"

\* a / n of Python as the exact fraction <<a, n>>; raises when n = 0
TrueDiv(a, n) == IF n = 0 THEN ZeroDivisionError ELSE <<a, n>>

\* q > k for a fraction q with positive denominator
FracGT(q, k) == q[1] > k * q[2]

(***************************************************************************)
(* ContentAnalyzer                                                         *)
(***************************************************************************)

\* ContentAnalyzer._analyze_complexity with the early return removed
_analyze_complexity_unguarded(content) ==
    LET total_words == SumSeq([i \in 1..Len(content) |-> WordCount(content[i])])
        avg_length  == TrueDiv(total_words, Len(content))
    IN  IF avg_length = ZeroDivisionError THEN ZeroDivisionError
        ELSE IF FracGT(avg_length, 15) THEN "complex"
        ELSE IF FracGT(avg_length, 8) THEN "medium"
        ELSE "simple"

_analyze_complexity(content) ==
    IF Len(content) = 0 THEN "simple"
    ELSE LET total_words == SumSeq([i \in 1..Len(content) |-> WordCount(content[i])])
             avg_length  == TrueDiv(total_words, Len(content))
         IN  IF avg_length = ZeroDivisionError THEN ZeroDivisionError
             ELSE IF FracGT(avg_length, 15) THEN "complex"
             ELSE IF FracGT(avg_length, 8) THEN "medium"
             ELSE "simple"

_determine_hierarchy_level(title) ==
    LET title_lower == Lower(title)
    IN  IF ContainsAny(title_lower, <<"executive", "summary", "overview">>) THEN 1
        ELSE IF ContainsAny(title_lower, <<"introduction", "conclusion", "agenda">>) THEN 2
        ELSE 3

Max(a, b) == IF a >= b THEN a ELSE b

Min(a, b) == IF a <= b THEN a ELSE b

\* the weight returned without `max(0.1, min(1.0, weight))`
_calculate_visual_weight_unclamped(word_count, complexity, hierarchy) ==
    5 + (IF word_count < 20 THEN 3 ELSE IF word_count > 80 THEN -2 ELSE 0)
      + (CASE complexity = "simple" -> 2 [] complexity = "complex" -> -2 [] OTHER -> 0)
      + (CASE hierarchy = 1 -> 4 [] hierarchy = 2 -> 2 [] OTHER -> 0)

\* visual_weight is held in tenths: 5 stands for 0.5
_calculate_visual_weight(word_count, complexity, hierarchy) ==
    LET w0 == 5
        w1 == IF word_count < 20 THEN w0 + 3
              ELSE IF word_count > 80 THEN w0 - 2 ELSE w0
        w2 == w1 + (CASE complexity = "simple"  -> 2
                      [] complexity = "medium"  -> 0
                      [] complexity = "complex" -> -2
                      [] OTHER -> 0)
        w3 == w2 + (CASE hierarchy = 1 -> 4
                      [] hierarchy = 2 -> 2
                      [] hierarchy = 3 -> 0
                      [] OTHER -> 0)
    IN  Max(1, Min(10, w3))

\* the content type decision with the item-count and word-count rules tried
\* before the title rules
_detect_content_type_count_first(title, content) ==
    LET title_lower  == Lower(title)
        content_text == Lower(Join(content, " "))
    IN  IF Len(content) = 1 /\ WordCount(content_text) < 30 THEN "quote"
        ELSE IF Len(content) > 3 THEN "list_items"
        ELSE IF WordCount(content_text) > 100 THEN "text_heavy"
        ELSE IF ContainsAny(title_lower, <<"timeline", "phases", "roadmap", "schedule">>)
            THEN "timeline"
        ELSE IF ContainsAny(title_lower, <<"metrics", "kpi", "results", "analysis">>)
            THEN "data_driven"
        ELSE IF ContainsAny(title_lower, <<"vs", "comparison", "options", "alternatives">>)
            THEN "comparison"
        ELSE IF ContainsAny(title_lower, <<"architecture", "structure", "hierarchy", "organization">>)
            THEN "hierarchy"
        ELSE "list_items"

_detect_content_type(title, content) ==
    LET title_lower  == Lower(title)
        content_text == Lower(Join(content, " "))
    IN  IF ContainsAny(title_lower, <<"timeline", "phases", "roadmap", "schedule">>)
            THEN "timeline"
        ELSE IF ContainsAny(title_lower, <<"metrics", "kpi", "results", "analysis">>)
            THEN "data_driven"
        ELSE IF ContainsAny(title_lower, <<"vs", "comparison", "options", "alternatives">>)
            THEN "comparison"
        ELSE IF ContainsAny(title_lower, <<"architecture", "structure", "hierarchy", "organization">>)
            THEN "hierarchy"
        ELSE IF Len(content) = 1 /\ WordCount(content_text) < 30 THEN "quote"
        ELSE IF Len(content) > 3 THEN "list_items"
        ELSE IF WordCount(content_text) > 100 THEN "text_heavy"
        ELSE "list_items"

\* the fields of the analysis dict that the layout and font decisions read;
\* raised names the exception that escaped, "" when the call returned
analyze_content(title, content_items) ==
    LET content_text    == Join(<<title>> \o content_items, " ")
        word_count      == WordCount(content_text)
        content_type    == _detect_content_type(title, content_items)
        complexity      == _analyze_complexity(content_items)
        hierarchy_level == _determine_hierarchy_level(title)
    IN  IF complexity = ZeroDivisionError
        THEN [raised |-> ZeroDivisionError, content_type |-> content_type,
              word_count |-> word_count, complexity |-> "",
              hierarchy_level |-> hierarchy_level, visual_weight |-> 0]
        ELSE [raised |-> "", content_type |-> content_type,
              word_count |-> word_count, complexity |-> complexity,
              hierarchy_level |-> hierarchy_level,
              visual_weight |-> _calculate_visual_weight(word_count, complexity, hierarchy_level)]

(***************************************************************************)
(* SmartDesignRules.calculate_optimal_font_sizes                           *)
(***************************************************************************)

\* int(a / b) of Python for b > 0: the quotient truncated toward zero
IntTrunc(a, b) == IF a >= 0 THEN a \div b ELSE -((-a) \div b)

\* int(base_title * (0.7 + visual_weight * 0.8)) with visual_weight in tenths:
\* 32 * (0.7 + 0.08 k) = (2240 + 256 k) / 100
BaseTitleSize(visual_weight) == IntTrunc(2240 + 256 * visual_weight, 100)

\* int(base_body * (0.8 + visual_weight * 0.4)) with visual_weight in tenths:
\* 18 * (0.8 + 0.04 k) = (1440 + 72 k) / 100
BaseBodySize(visual_weight) == IntTrunc(1440 + 72 * visual_weight, 100)

\* title_size after the word-count delta
TitleSize(visual_weight, word_count) ==
    BaseTitleSize(visual_weight)
        + (IF word_count < 20 THEN 8 ELSE IF word_count > 80 THEN -4 ELSE 0)

\* body_size after the word-count and content-type deltas
BodySize(visual_weight, word_count, content_type) ==
    BaseBodySize(visual_weight)
        + (IF word_count < 20 THEN 4 ELSE IF word_count > 80 THEN -2 ELSE 0)
        + (IF content_type = "quote" THEN 6
           ELSE IF content_type = "data_driven" THEN -2 ELSE 0)

\* the sizes returned with the upper limits of title and body left out
calculate_optimal_font_sizes_no_upper_limit(visual_weight, word_count, content_type) ==
    [title   |-> Max(24, TitleSize(visual_weight, word_count)),
     body    |-> Max(12, BodySize(visual_weight, word_count, content_type)),
     caption |-> Max(10, Min(14, BodySize(visual_weight, word_count, content_type) - 4))]

\* the sizes returned with the upper limit of the caption left out
calculate_optimal_font_sizes_open_caption(visual_weight, word_count, content_type) ==
    [title   |-> Max(24, Min(48, TitleSize(visual_weight, word_count))),
     body    |-> Max(12, Min(24, BodySize(visual_weight, word_count, content_type))),
     caption |-> Max(10, BodySize(visual_weight, word_count, content_type) - 4)]

calculate_optimal_font_sizes(visual_weight, word_count, content_type) ==
    [title   |-> Max(24, Min(48, TitleSize(visual_weight, word_count))),
     body    |-> Max(12, Min(24, BodySize(visual_weight, word_count, content_type))),
     caption |-> Max(10, Min(14, BodySize(visual_weight, word_count, content_type) - 4))]

(***************************************************************************)
(* DynamicChartGenerator.detect_data_pattern                               *)
(***************************************************************************)

None == "None"

Digits == "0123456789"

DigitChars == {Ch(Digits, k) : k \in 1..10}

DigitValue == [c \in DigitChars |-> (CHOOSE k \in 1..10 : Ch(Digits, k) = c) - 1]

IsDigit(c) == c \in DigitChars

IsLetter(c) == c \in UpperChars \/ c \in LowerChars

RECURSIVE RunEnd(_, _, _)
\* first index at or after i of s whose character is not in the class; Len(s) + 1 if none
RunEnd(class, s, i) ==
    IF i <= Len(s) /\ Ch(s, i) \in class THEN RunEnd(class, s, i + 1) ELSE i

\* \d* from index i
DigitsEnd(s, i) == RunEnd(DigitChars, s, i)

\* \s* from index i
SpacesEnd(s, i) == RunEnd(Whitespace, s, i)

\* [A-Za-z]* from index i
LettersEnd(s, i) == RunEnd(UpperChars \cup LowerChars, s, i)

\* (?:\.\d+)? tried at index e: the index after it
FractionEnd(s, e) ==
    IF e <= Len(s) /\ Ch(s, e) = "." /\ DigitsEnd(s, e + 1) > e + 1
    THEN DigitsEnd(s, e + 1)
    ELSE e

NoMatch == [found |-> FALSE, group |-> "", stop |-> 0]

\* percentage_pattern = r'(\d+(?:\.\d+)?)\s*%' matched at index i:
\* the captured group and the index after the match
MatchPercentage(s, i) ==
    LET d == DigitsEnd(s, i)
        e == FractionEnd(s, d)
        w == SpacesEnd(s, e)
    IN  IF d > i /\ w <= Len(s) /\ Ch(s, w) = "%"
        THEN [found |-> TRUE, group |-> SubSeq(s, i, e - 1), stop |-> w + 1]
        ELSE NoMatch

RECURSIVE GroupsEnd(_, _)
\* (?:,\d{3})* tried at index p: the index after the last repetition
GroupsEnd(s, p) ==
    IF /\ p + 3 <= Len(s)
       /\ Ch(s, p) = ","
       /\ \A k \in (p + 1)..(p + 3) : IsDigit(Ch(s, k))
    THEN GroupsEnd(s, p + 4)
    ELSE p

\* numeric_pattern = r'(\d+(?:,\d{3})*(?:\.\d+)?)' matched at index i
MatchNumeric(s, i) ==
    LET d == DigitsEnd(s, i)
        g == GroupsEnd(s, d)
        e == FractionEnd(s, g)
    IN  IF d > i
        THEN [found |-> TRUE, group |-> SubSeq(s, i, e - 1), stop |-> e]
        ELSE NoMatch

\* r'(Q[1-4]|[A-Za-z]+)\s*\d{4}' matched at index i
MatchTimeline(s, i) ==
    LET year(p) == LET w == SpacesEnd(s, p)
                   IN  w + 3 <= Len(s) /\ \A k \in w..(w + 3) : IsDigit(Ch(s, k))
        quarter == /\ i + 1 <= Len(s)
                   /\ Ch(s, i) = "Q"
                   /\ Ch(s, i + 1) \in {"1", "2", "3", "4"}
                   /\ year(i + 2)
        l       == LettersEnd(s, i)
        word    == l > i /\ year(l)
    IN  quarter \/ word

\* the compiled pattern named by pattern, matched at index i of s
Match(pattern, s, i) ==
    IF pattern = "percentage_pattern" THEN MatchPercentage(s, i) ELSE MatchNumeric(s, i)

RECURSIVE FindAll(_, _, _)
\* re.findall(pattern, s) from index i on
FindAll(pattern, s, i) ==
    IF i > Len(s) THEN << >>
    ELSE LET m == Match(pattern, s, i)
         IN  IF m.found THEN <<m.group>> \o FindAll(pattern, s, m.stop)
             ELSE FindAll(pattern, s, i + 1)

RECURSIVE SubEmpty(_, _, _)
\* re.sub(pattern, '', s) from index i on
SubEmpty(pattern, s, i) ==
    IF i > Len(s) THEN ""
    ELSE LET m == Match(pattern, s, i)
         IN  IF m.found THEN SubEmpty(pattern, s, m.stop)
             ELSE Ch(s, i) \o SubEmpty(pattern, s, i + 1)

\* str.strip()
Strip(s) ==
    LET keep == {i \in 1..Len(s) : ~IsSpace(Ch(s, i))}
    IN  IF keep = {} THEN ""
        ELSE SubSeq(s, CHOOSE i \in keep : \A j \in keep : i <= j,
                       CHOOSE i \in keep : \A j \in keep : i >= j)

\* str.rstrip(':')
RStripColon(s) ==
    LET keep == {i \in 1..Len(s) : Ch(s, i) # ":"}
    IN  IF keep = {} THEN ""
        ELSE SubSeq(s, 1, CHOOSE i \in keep : \A j \in keep : i >= j)

\* label[:30]
MaxLabelLen == 30

Truncate(s, n) == IF Len(s) > n THEN SubSeq(s, 1, n) ELSE s

\* float values are held in hundredths: 3000 stands for 30.0
ValueScale == 100

RECURSIVE ParseDigits(_)
\* int() of a string of digits
ParseDigits(s) ==
    IF Len(s) = 0 THEN 0
    ELSE ParseDigits(SubSeq(s, 1, Len(s) - 1)) * 10
         + DigitValue[Ch(s, Len(s))]

RECURSIVE RemoveCommas(_)
\* num.replace(',', '')
RemoveCommas(s) ==
    IF Len(s) = 0 THEN ""
    ELSE (IF Ch(s, 1) = "," THEN "" ELSE Ch(s, 1)) \o RemoveCommas(Tail(s))

\* float(s) for digits[.digits], in hundredths (two fractional digits are kept)
ParseFloat(s) ==
    LET dots == {i \in 1..Len(s) : Ch(s, i) = "."}
    IN  IF dots = {} THEN ParseDigits(s) * ValueScale
        ELSE LET d    == CHOOSE i \in dots : TRUE
                 frac == SubSeq(s \o "00", d + 1, d + 2)
             IN  ParseDigits(SubSeq(s, 1, d - 1)) * ValueScale + ParseDigits(frac)

\* the item loop without the `if not percentages` guard on the numeric scan
ScanItem_double_count(data_patterns, item) ==
    LET percentages == FindAll("percentage_pattern", item, 1)
        pct_label   == Truncate(RStripColon(Strip(SubEmpty("percentage_pattern", item, 1))),
                                MaxLabelLen)
        timeline_matches == \E i \in 1..Len(item) : MatchTimeline(item, i)
        numbers     == FindAll("numeric_pattern", item, 1)
        num_label   == Truncate(RStripColon(Strip(SubEmpty("numeric_pattern", item, 1))),
                                MaxLabelLen)
    IN  [data_patterns EXCEPT
            !.has_percentages = @ \/ Len(percentages) > 0,
            !.has_timeline = @ \/ timeline_matches,
            !.data   = @ \o [k \in 1..Len(percentages) |-> ParseFloat(percentages[k])]
                         \o [k \in 1..Len(numbers) |-> ParseFloat(RemoveCommas(numbers[k]))],
            !.labels = @ \o [k \in 1..Len(percentages) |-> pct_label]
                         \o [k \in 1..Len(numbers) |-> num_label]]

\* the body of `for item in content_items` applied to one item
ScanItem(data_patterns, item) ==
    LET percentages == FindAll("percentage_pattern", item, 1)
        pct_label   == Truncate(RStripColon(Strip(SubEmpty("percentage_pattern", item, 1))),
                                MaxLabelLen)
        timeline_matches == \E i \in 1..Len(item) : MatchTimeline(item, i)
        numbers     == FindAll("numeric_pattern", item, 1)
        num_label   == Truncate(RStripColon(Strip(SubEmpty("numeric_pattern", item, 1))),
                                MaxLabelLen)
    IN  IF Len(percentages) > 0
        THEN [data_patterns EXCEPT
                !.has_percentages = TRUE,
                !.data   = @ \o [k \in 1..Len(percentages) |-> ParseFloat(percentages[k])],
                !.labels = @ \o [k \in 1..Len(percentages) |-> pct_label],
                !.has_timeline = @ \/ timeline_matches]
        ELSE [data_patterns EXCEPT
                !.has_timeline = @ \/ timeline_matches,
                !.data   = @ \o [k \in 1..Len(numbers) |->
                                    ParseFloat(RemoveCommas(numbers[k]))],
                !.labels = @ \o [k \in 1..Len(numbers) |-> num_label]]

RECURSIVE ScanItems(_, _)
ScanItems(data_patterns, content_items) ==
    IF Len(content_items) = 0 THEN data_patterns
    ELSE ScanItems(ScanItem(data_patterns, Head(content_items)), Tail(content_items))

\* the chart type decision with the timeline test ahead of the percentage test
ChartType_timeline_first(data_patterns) ==
    IF data_patterns.has_timeline /\ Len(data_patterns.data) >= 2 THEN "line"
    ELSE IF data_patterns.has_percentages /\ Len(data_patterns.data) >= 2 THEN "pie"
    ELSE IF Len(data_patterns.data) >= 2 THEN "bar"
    ELSE None

\* the chart type decision that charts a single data point
ChartType_single_point(data_patterns) ==
    IF data_patterns.has_percentages /\ Len(data_patterns.data) >= 1 THEN "pie"
    ELSE IF data_patterns.has_timeline /\ Len(data_patterns.data) >= 1 THEN "line"
    ELSE IF Len(data_patterns.data) >= 1 THEN "bar"
    ELSE None

\* "Determine chart type"
ChartType(data_patterns) ==
    IF data_patterns.has_percentages /\ Len(data_patterns.data) >= 2 THEN "pie"
    ELSE IF data_patterns.has_timeline /\ Len(data_patterns.data) >= 2 THEN "line"
    ELSE IF Len(data_patterns.data) >= 2 THEN "bar"
    ELSE None

\* detect_data_pattern filling one dict that outlives the call
detect_data_pattern_shared_dict(content_items) ==
    LET scanned == ScanItems(dp_result, content_items)
    IN  [scanned EXCEPT !.chart_type = ChartType(scanned)]

detect_data_pattern(content_items) ==
    LET empty   == [chart_type |-> None, data |-> << >>, labels |-> << >>,
                    has_percentages |-> FALSE, has_timeline |-> FALSE]
        scanned == ScanItems(empty, content_items)
    IN  [scanned EXCEPT !.chart_type = ChartType(scanned)]

(***************************************************************************)
(* SmartLayoutDetector                                                     *)
(***************************************************************************)

\* detect_layout with the item-count rules tried before the title rules
detect_layout_count_first(title, content_items) ==
    LET title_lower     == Lower(title)
        content_text    == Lower(Join(content_items, " "))
        has_percentages == \E i \in 1..Len(content_items) : Contains(content_items[i], "%")
    IN  IF Len(content_items) = 0 THEN "simple"
        ELSE IF Len(content_items) = 1 /\ WordCount(content_items[1]) < 30 THEN "quote"
        ELSE IF 4 <= Len(content_items) /\ Len(content_items) <= 6 THEN "grid"
        ELSE IF Len(content_items) > 6 THEN "multi_column"
        ELSE IF ContainsAny(title_lower, <<"timeline", "phases", "roadmap", "schedule">>)
            THEN "timeline"
        ELSE IF ContainsAny(content_text, <<"q1", "q2", "q3", "q4", "phase">>)
            THEN "timeline"
        ELSE IF ContainsAny(title_lower, <<"architecture", "structure", "hierarchy", "organization">>)
            THEN "hierarchy"
        ELSE IF ContainsAny(title_lower, <<"vs", "comparison", "versus">>)
            THEN "comparison"
        ELSE IF ContainsAny(content_text, <<"versus", "compared to", "current", "proposed">>)
            THEN "comparison"
        ELSE IF ContainsAny(title_lower, <<"metrics", "kpi", "results", "performance">>)
            THEN "metrics"
        ELSE IF has_percentages /\ Len(content_items) >= 2 THEN "metrics"
        ELSE IF \E i \in 1..Len(content_items) :
                    Contains(content_items[i], "|") \/ Contains(content_items[i], "\t")
            THEN "table"
        ELSE "simple"

\* detect_layout with the grid range written as 4 < len <= 6
detect_layout_grid_off_by_one(title, content_items) ==
    LET title_lower     == Lower(title)
        content_text    == Lower(Join(content_items, " "))
        has_percentages == \E i \in 1..Len(content_items) : Contains(content_items[i], "%")
    IN  IF Len(content_items) = 0 THEN "simple"
        ELSE IF Len(content_items) = 1 /\ WordCount(content_items[1]) < 30 THEN "quote"
        ELSE IF ContainsAny(title_lower, <<"timeline", "phases", "roadmap", "schedule">>)
            THEN "timeline"
        ELSE IF ContainsAny(content_text, <<"q1", "q2", "q3", "q4", "phase">>)
            THEN "timeline"
        ELSE IF ContainsAny(title_lower, <<"architecture", "structure", "hierarchy", "organization">>)
            THEN "hierarchy"
        ELSE IF ContainsAny(title_lower, <<"vs", "comparison", "versus">>)
            THEN "comparison"
        ELSE IF ContainsAny(content_text, <<"versus", "compared to", "current", "proposed">>)
            THEN "comparison"
        ELSE IF ContainsAny(title_lower, <<"metrics", "kpi", "results", "performance">>)
            THEN "metrics"
        ELSE IF has_percentages /\ Len(content_items) >= 2 THEN "metrics"
        ELSE IF \E i \in 1..Len(content_items) :
                    Contains(content_items[i], "|") \/ Contains(content_items[i], "\t")
            THEN "table"
        ELSE IF 4 < Len(content_items) /\ Len(content_items) <= 6 THEN "grid"
        ELSE IF Len(content_items) > 6 THEN "multi_column"
        ELSE "simple"

detect_layout(title, content_items) ==
    LET title_lower     == Lower(title)
        content_text    == Lower(Join(content_items, " "))
        has_percentages == \E i \in 1..Len(content_items) : Contains(content_items[i], "%")
    IN  IF Len(content_items) = 0 THEN "simple"
        ELSE IF Len(content_items) = 1 /\ WordCount(content_items[1]) < 30 THEN "quote"
        ELSE IF ContainsAny(title_lower, <<"timeline", "phases", "roadmap", "schedule">>)
            THEN "timeline"
        ELSE IF ContainsAny(content_text, <<"q1", "q2", "q3", "q4", "phase">>)
            THEN "timeline"
        ELSE IF ContainsAny(title_lower, <<"architecture", "structure", "hierarchy", "organization">>)
            THEN "hierarchy"
        ELSE IF ContainsAny(title_lower, <<"vs", "comparison", "versus">>)
            THEN "comparison"
        ELSE IF ContainsAny(content_text, <<"versus", "compared to", "current", "proposed">>)
            THEN "comparison"
        ELSE IF ContainsAny(title_lower, <<"metrics", "kpi", "results", "performance">>)
            THEN "metrics"
        ELSE IF has_percentages /\ Len(content_items) >= 2 THEN "metrics"
        ELSE IF \E i \in 1..Len(content_items) :
                    Contains(content_items[i], "|") \/ Contains(content_items[i], "\t")
            THEN "table"
        ELSE IF 4 <= Len(content_items) /\ Len(content_items) <= 6 THEN "grid"
        ELSE IF Len(content_items) > 6 THEN "multi_column"
        ELSE "simple"

(***************************************************************************)
(* DesignTemplateLibrary                                                   *)
(***************************************************************************)

\* the keys of get_all_themes() in dict order
CatalogOrder ==
    <<"corporate", "modern", "healthcare", "finance", "security", "education", "startup", "government", "consulting", "minimal">>

ThemeKeys == {CatalogOrder[k] : k \in 1..Len(CatalogOrder)}

\* DesignTheme.name of each catalog theme
ThemeName ==
    [corporate |-> "Corporate Professional",
     modern |-> "Modern Tech",
     healthcare |-> "Healthcare Professional",
     finance |-> "Financial Services",
     security |-> "Cybersecurity",
     education |-> "Educational Friendly",
     startup |-> "Startup Dynamic",
     government |-> "Government Official",
     consulting |-> "Consulting Executive",
     minimal |-> "Minimal Clean"]

\* DesignTheme.colors of each catalog theme as the class body defines them
StaticCatalog ==
    [k \in ThemeKeys |->
        CASE k = "corporate" -> [primary |-> "#2E75B6", secondary |-> "#5A6C7D", background |-> "#FFFFFF", text |-> "#2C3E50", accent |-> "#3498DB", light |-> "#F8F9FA"]
          [] k = "modern" -> [primary |-> "#667EEA", secondary |-> "#764BA2", background |-> "#F7FAFC", text |-> "#1A202C", accent |-> "#4FD1C7", light |-> "#EDF2F7"]
          [] k = "healthcare" -> [primary |-> "#48BB78", secondary |-> "#68D391", background |-> "#FFFFFF", text |-> "#2D3748", accent |-> "#4299E1", light |-> "#F0FFF4"]
          [] k = "finance" -> [primary |-> "#1B5E20", secondary |-> "#2E7D32", background |-> "#FFFFFF", text |-> "#1B5E20", accent |-> "#FFB300", light |-> "#F1F8E9"]
          [] k = "security" -> [primary |-> "#C53030", secondary |-> "#2D3748", background |-> "#1A202C", text |-> "#F7FAFC", accent |-> "#E53E3E", light |-> "#4A5568"]
          [] k = "education" -> [primary |-> "#2B6CB0", secondary |-> "#ED8936", background |-> "#FFFBF0", text |-> "#2D3748", accent |-> "#38A169", light |-> "#FFF5F5"]
          [] k = "startup" -> [primary |-> "#E53E3E", secondary |-> "#F56565", background |-> "#1A202C", text |-> "#FFFFFF", accent |-> "#48BB78", light |-> "#2D3748"]
          [] k = "government" -> [primary |-> "#1A202C", secondary |-> "#4A5568", background |-> "#FFFFFF", text |-> "#2D3748", accent |-> "#C53030", light |-> "#F7FAFC"]
          [] k = "consulting" -> [primary |-> "#553C9A", secondary |-> "#805AD5", background |-> "#FAFAFA", text |-> "#1A202C", accent |-> "#D69E2E", light |-> "#F7FAFC"]
          [] k = "minimal" -> [primary |-> "#333333", secondary |-> "#666666", background |-> "#FFFFFF", text |-> "#333333", accent |-> "#E53E3E", light |-> "#F5F5F5"]]

\* style_map of get_theme_by_style in dict order
StyleMap ==
    <<<<"modern", "modern">>,
      <<"innovative", "modern">>,
      <<"gradient", "modern">>,
      <<"minimal", "minimal">>,
      <<"minimalist", "minimal">>,
      <<"clean", "minimal">>,
      <<"simple", "minimal">>,
      <<"bold", "startup">>,
      <<"dynamic", "startup">>,
      <<"energetic", "startup">>,
      <<"elegant", "consulting">>,
      <<"premium", "consulting">>,
      <<"sophisticated", "consulting">>,
      <<"formal", "government">>,
      <<"official", "government">>,
      <<"institutional", "government">>,
      <<"friendly", "education">>,
      <<"warm", "education">>,
      <<"approachable", "education">>,
      <<"strong", "security">>,
      <<"dark", "security">>,
      <<"protective", "security">>,
      <<"trustworthy", "healthcare">>,
      <<"medical", "healthcare">>,
      <<"conservative", "finance">>,
      <<"traditional", "finance">>,
      <<"professional", "corporate">>,
      <<"corporate", "corporate">>>>

get_theme_by_style(style) ==
    LET style_lower == Lower(style)
        direct  == {k \in 1..Len(StyleMap) : StyleMap[k][1] = style_lower}
        partial == {k \in 1..Len(StyleMap) :
                        \/ Contains(style_lower, StyleMap[k][1])
                        \/ Contains(StyleMap[k][1], style_lower)}
        first(S) == CHOOSE k \in S : \A j \in S : k <= j
    IN  IF direct # {} THEN StyleMap[first(direct)][2]
        ELSE IF partial # {} THEN StyleMap[first(partial)][2]
        ELSE "corporate"

get_theme_for_industry(industry) ==
    LET industry_lower == Lower(industry)
    IN  IF ContainsAny(industry_lower, <<"government", "public", "municipal">>) THEN "government"
        ELSE IF ContainsAny(industry_lower, <<"consulting", "advisory", "strategy">>) THEN "consulting"
        ELSE IF ContainsAny(industry_lower, <<"startup", "venture", "innovation">>) THEN "startup"
        ELSE IF ContainsAny(industry_lower, <<"health", "medical", "pharma", "biotech">>) THEN "healthcare"
        ELSE IF ContainsAny(industry_lower, <<"finance", "bank", "investment", "money">>) THEN "finance"
        ELSE IF ContainsAny(industry_lower, <<"security", "cyber", "protection", "risk">>) THEN "security"
        ELSE IF ContainsAny(industry_lower, <<"education", "training", "learning", "school">>) THEN "education"
        ELSE IF ContainsAny(industry_lower, <<"tech", "software", "digital">>) THEN "modern"
        ELSE "corporate"

\* the last key in dict order with the largest score
MaxKey_last(scores) ==
    CatalogOrder[CHOOSE k \in 1..Len(CatalogOrder) :
        /\ \A j \in 1..Len(CatalogOrder) : scores[CatalogOrder[j]] <= scores[CatalogOrder[k]]
        /\ \A j \in (k + 1)..Len(CatalogOrder) : scores[CatalogOrder[j]] < scores[CatalogOrder[k]]]

\* max(scores, key=scores.get): the first key in dict order with the largest score
MaxKey(scores) ==
    CatalogOrder[CHOOSE k \in 1..Len(CatalogOrder) :
        /\ \A j \in 1..Len(CatalogOrder) : scores[CatalogOrder[j]] <= scores[CatalogOrder[k]]
        /\ \A j \in 1..(k - 1) : scores[CatalogOrder[j]] < scores[CatalogOrder[k]]]

\* the minimal theme stands in when nothing scored
BestOrCorporate_minimal_default(scores, best_theme) ==
    IF scores[best_theme] = 0 THEN "minimal" ELSE best_theme

\* `return best_theme if scores[best_theme.name] > 0 else cls.CORPORATE_THEME`
BestOrCorporate(scores, best_theme) ==
    IF scores[best_theme] = 0 THEN "corporate" ELSE best_theme

\* scores are held in tenths: 30 stands for 3.0; every theme starts at 0 and
\* collects the bonus of each dimension that is given and matches it
smart_theme_scores(industry, style, formality, audience) ==
    LET industry_theme == get_theme_for_industry(industry)
        style_theme == get_theme_by_style(style)
        formality_lower == Lower(formality)
        formal_themes   == {"corporate", "finance", "government"}
        casual_themes   == {"startup", "education", "minimal"}
        business_themes == {"modern", "healthcare", "consulting", "security"}
        group == IF Contains(formality_lower, "formal") THEN formal_themes
                 ELSE IF Contains(formality_lower, "casual") THEN casual_themes
                 ELSE business_themes
        audience_lower == Lower(audience)
        bonus == IF ContainsAny(audience_lower, <<"executive", "board", "c-suite">>)
                    THEN {"consulting", "corporate"}
                 ELSE IF ContainsAny(audience_lower, <<"developer", "engineer", "technical">>)
                    THEN {"modern"}
                 ELSE IF ContainsAny(audience_lower, <<"student", "teacher", "learner">>)
                    THEN {"education"}
                 ELSE IF ContainsAny(audience_lower, <<"investor", "shareholder">>)
                    THEN {"finance"}
                 ELSE {}
        scores == [name \in ThemeKeys |->
                      (IF industry # "" /\ ThemeName[name] = ThemeName[industry_theme]
                       THEN 30 ELSE 0)
                    + (IF style # "" /\ ThemeName[name] = ThemeName[style_theme]
                       THEN 20 ELSE 0)
                    + (IF formality # "" /\ name \in group THEN 15 ELSE 0)
                    + (IF audience # "" /\ name \in bonus THEN 10 ELSE 0)]
    IN  scores

\* best = max(scores, key=scores.get); CORPORATE_THEME when its score is 0.0
get_smart_theme(industry, style, formality, audience) ==
    BestOrCorporate(smart_theme_scores(industry, style, formality, audience),
                    MaxKey(smart_theme_scores(industry, style, formality, audience)))

\* get_design_system_for_content(content, style_analysis)["theme"]; a key
\* missing from style_analysis is None here
get_design_system_for_content(content, style_analysis) ==
    LET get(key, default) ==
            IF style_analysis[key] = None THEN default ELSE style_analysis[key]
    IN  get_smart_theme(get("industry", "corporate"), get("style", ""),
                        get("formality", ""), get("audience", ""))

(***************************************************************************)
(* AIDesignGenerator and AIEnhancedPPTXRenderer                            *)
(***************************************************************************)

\* JSON values: a scalar is [t |-> "str" | "null" | "num", v |-> text];
\* a parsed body is [kind |-> "dict" | "list" | "None", fields |-> name -> scalar]
\* (the members of a list are held under the names item0, item1, ...)
Str(v) == [t |-> "str", v |-> v]

JsonNull == [t |-> "null", v |-> ""]

JsonNum(v) == [t |-> "num", v |-> v]

Dict(fields) == [kind |-> "dict", fields |-> fields]

NoneValue == [kind |-> "None", fields |-> << >>]

\* d.get(key, default) on a dict
DictGet(d, key, default) ==
    IF key \in DOMAIN d.fields THEN d.fields[key] ELSE default

\* bool(x) for None, a dict or a list
Truthy(x) == x.kind # "None" /\ DOMAIN x.fields # {}

\* the dict of the `except Exception` branch of analyze_content_for_unique_design
FallbackAnalysis ==
    Dict([industry |-> Str("government"), formality |-> Str("formal"),
          style |-> Str("corporate"), color_preference |-> Str("professional blue"),
          audience |-> Str("executives"),
          visual_metaphor |-> Str("structure and reliability"),
          emotional_tone |-> Str("trustworthy and professional"),
          reasoning |-> Str("fallback to safe professional style")])

RequestFailures == {"network_error", "http_error", "malformed_body"}

\* remote mode: the request raises, raise_for_status raises, the body does
\* not parse, or json.loads(content) returns body
analyze_content_for_unique_design(request, body) ==
    IF request \in RequestFailures THEN FallbackAnalysis ELSE body

\* analyze_content_with_ai once the awaited call has produced design_analysis
analyze_content_with_ai(configured, request, body) ==
    IF ~configured THEN NoneValue
    ELSE LET design_analysis == analyze_content_for_unique_design(request, body)
         IN  \* design_analysis.get('industry') in the log line
             IF design_analysis.kind # "dict" THEN NoneValue
             ELSE design_analysis

_detect_industry_from_content(content) ==
    LET content_lower == Lower(content)
    IN  IF ContainsAny(content_lower, <<"health", "medical", "patient", "hospital">>)
            THEN "healthcare"
        ELSE IF ContainsAny(content_lower, <<"finance", "bank", "investment", "money">>)
            THEN "finance"
        ELSE IF ContainsAny(content_lower, <<"tech", "software", "digital", "api">>)
            THEN "technology"
        ELSE IF ContainsAny(content_lower, <<"security", "cyber", "protection">>)
            THEN "security"
        ELSE IF ContainsAny(content_lower, <<"education", "learning", "training">>)
            THEN "education"
        ELSE "corporate"

\* isinstance(value, str) and value.startswith('#') and len(value) == 7
OverrideAccepted(value) ==
    value.t = "str" /\ Len(value.v) = 7 /\ Ch(value.v, 1) = "#"

\* the `for key, value in spec_colors.items()` loop on theme.colors
ApplySpecColors(colors, spec_colors) ==
    LET accepted == {key \in DOMAIN spec_colors.fields :
                        OverrideAccepted(spec_colors.fields[key])}
    IN  [key \in (DOMAIN colors) \cup accepted |->
            IF key \in accepted THEN spec_colors.fields[key].v ELSE colors[key]]

\* get_design_theme: the exception that escapes, the theme object returned
\* and the colors of the catalog themes after the call
get_design_theme(themes, analysis, fallback_content, spec_colors) ==
    LET industry == DictGet(analysis, "industry", Str("corporate"))
        theme == IF Truthy(analysis)
                 THEN get_theme_for_industry(industry.v)
                 ELSE get_design_system_for_content(fallback_content,
                        [industry  |-> _detect_industry_from_content(fallback_content),
                         style     |-> None,
                         formality |-> None,
                         audience  |-> None])
    IN  IF Truthy(analysis) /\ industry.t # "str"
        THEN [raised |-> AttributeError, theme |-> None, themes |-> themes]
        ELSE [raised |-> "", theme |-> theme,
              themes |-> IF Truthy(spec_colors)
                         THEN [themes EXCEPT ![theme] = ApplySpecColors(@, spec_colors)]
                         ELSE themes]

RECURSIVE SplitNewline(_)
\* content.split('\n')
SplitNewline(s) ==
    LET breaks == {i \in 1..Len(s) : Ch(s, i) = "\n"}
    IN  IF breaks = {} THEN <<s>>
        ELSE LET b == CHOOSE i \in breaks : \A j \in breaks : i <= j
             IN  <<SubSeq(s, 1, b - 1)>> \o SplitNewline(SubSeq(s, b + 1, Len(s)))

RECURSIVE StrippedNonEmpty(_)
\* [line.strip() for line in lines if line.strip()]
StrippedNonEmpty(lines) ==
    IF Len(lines) = 0 THEN << >>
    ELSE (IF Strip(Head(lines)) # "" THEN <<Strip(Head(lines))>> ELSE << >>)
         \o StrippedNonEmpty(Tail(lines))

RECURSIVE ExtractSlide(_, _)
\* the `for ph in placeholders` loop of render_with_ai_design from the
\* locals [slide_title, body_items] on
ExtractSlide(acc, placeholders) ==
    IF Len(placeholders) = 0 THEN acc
    ELSE LET ph      == Head(placeholders)
             id      == Lower(ph.id)
             content == ph.content
             next ==
                IF Contains(id, "subtitle") \/ Contains(id, "subheading") \/ ph.type = "subtitle"
                THEN [acc EXCEPT !.body_items = <<content>> \o @]
                ELSE IF Contains(id, "title") \/ Contains(id, "heading") \/ ph.type = "title"
                THEN [acc EXCEPT !.slide_title = content]
                ELSE IF Contains(content, "\n")
                THEN [acc EXCEPT !.body_items = @ \o StrippedNonEmpty(SplitNewline(content))]
                ELSE [acc EXCEPT !.body_items = Append(@, content)]
         IN  ExtractSlide(next, Tail(placeholders))

SlideContent(layout) ==
    ExtractSlide([slide_title |-> "", body_items |-> << >>], layout.placeholders)

KNOWN_LAYOUTS ==
    {"title", "quote", "timeline", "hierarchy", "comparison",
     "metrics", "table", "grid", "multi_column", "simple"}

\* the layout decision with the layout name compared as written
LayoutType_case_sensitive(layout) ==
    LET layout_name == layout.name
        content     == SlideContent(layout)
    IN  IF layout_name \in KNOWN_LAYOUTS THEN layout_name
        ELSE detect_layout(content.slide_title, content.body_items)

\* "Use explicit layout_hint from spec if it's a known type, otherwise auto-detect"
LayoutType(layout) ==
    LET layout_name == Lower(layout.name)
        content     == SlideContent(layout)
    IN  IF layout_name \in KNOWN_LAYOUTS THEN layout_name
        ELSE detect_layout(content.slide_title, content.body_items)

\* _extract_all_content
_extract_all_content(data) ==
    LET contents(layout) ==
            [k \in 1..Len(layout.placeholders) |-> layout.placeholders[k].content]
        RECURSIVE flat(_)
        flat(layouts) ==
            IF Len(layouts) = 0 THEN << >>
            ELSE contents(Head(layouts)) \o flat(Tail(layouts))
        parts == SelectSeq(flat(data.layouts), LAMBDA c : c # "")
    IN  Join(parts, " ")

\* render_with_ai_design from the resolved ai_analysis to its end: the theme,
\* the overrides, and one slide per layout
RenderWith(data, analysis) ==
    LET resolved == get_design_theme(catalog, analysis,
                                     _extract_all_content(data), data.colors)
        n        == Len(data.layouts)
        analyses == [i \in 1..n |->
                        LET c == SlideContent(data.layouts[i])
                        IN  analyze_content(c.slide_title, c.body_items)]
    IN  /\ ai_analysis' = analysis
        /\ catalog' = resolved.themes
        /\ design_theme' = resolved.theme
        /\ IF resolved.raised # ""
           THEN pc' = "raised" /\ slides' = << >>
           ELSE IF \E i \in 1..n : analyses[i].raised # ""
           THEN pc' = "raised" /\ slides' = << >>
           ELSE /\ pc' = "returned"
                /\ slides' = [i \in 1..n |-> LayoutType(data.layouts[i])]

(***************************************************************************)
(* Per-slide decisions on bounded inputs                                   *)
(***************************************************************************)

\* most items of a generated content list
MaxItems == 7

\* words of the long body item
LongWords == 30

RECURSIVE Repeat(_, _)
Repeat(s, n) == IF n = 0 THEN "" ELSE s \o Repeat(s, n - 1)

LongItem == Repeat("word ", LongWords - 1) \o "word"

\* words of the body item that alone makes a slide text-heavy
HeavyWords == 101

HeavyItem == Repeat("text ", HeavyWords - 1) \o "text"

\* the body item one word short of HeavyItem
NearHeavyItem == Repeat("text ", HeavyWords - 2) \o "text"

PlainItem == "Feature A"

Titles ==
    {"", "Features", "Project Timeline", "PHASES", "Team Structure",
     "Plan A vs Plan B", "Key Performance Metrics", "Executive Summary",
     "Agenda", "Roadmap Results", "Options Analysis", "Alternatives Architecture"}

ItemVocab ==
    {PlainItem, "Growth: 30%", "Phase 2", "Q1 2025: Foundation",
     "Current system handles requests", "Cost | Benefit", "x\ty",
     "Revenue: $500", LongItem, HeavyItem, NearHeavyItem}

\* content lists: a first and a last item from the vocabulary, plain items between
ItemLists ==
    {<< >>} \cup
    {[i \in 1..n |-> IF i = 1 THEN a ELSE IF i = n THEN b ELSE PlainItem] :
        n \in 1..MaxItems, a \in ItemVocab, b \in ItemVocab}

NoAnalysis ==
    [raised |-> "", content_type |-> "", word_count |-> 0, complexity |-> "",
     hierarchy_level |-> 0, visual_weight |-> 0]

NoDataPattern ==
    [chart_type |-> None, data |-> << >>, labels |-> << >>,
     has_percentages |-> FALSE, has_timeline |-> FALSE]

\* the chart detector has not been called
DataIdle ==
    /\ dp_calls = 0
    /\ dp_items = << >>
    /\ dp_result = NoDataPattern

\* no slide is being decided
SlideIdle ==
    /\ sl_pc = "idle"
    /\ sl_title = ""
    /\ sl_items = << >>
    /\ sl_analysis = NoAnalysis
    /\ sl_layout = ""

NoSizes == [title |-> 0, body |-> 0, caption |-> 0]

\* no font sizing is under way
FontIdle ==
    /\ fs_pc = "idle"
    /\ fs_weight = 0
    /\ fs_words = 0
    /\ fs_type = ""
    /\ fs_sizes = NoSizes

NoSpec == [colors |-> NoneValue, layouts |-> << >>]

\* no render call is running: its arguments and locals do not exist
NoCall ==
    /\ spec_data = NoSpec
    /\ company_info = FALSE
    /\ ai_request = "none"
    /\ ai_analysis = NoneValue
    /\ design_theme = None
    /\ slides = << >>

\* a renderer without AI generator that has rendered nothing
RenderIdle ==
    /\ has_ai = FALSE
    /\ catalog = StaticCatalog
    /\ runs = 0
    /\ pc = "idle"
    /\ NoCall

InitSlide ==
    /\ ExtIdle
    /\ DataIdle
    /\ RenderIdle
    /\ FontIdle
    /\ sl_pc = "input"
    /\ sl_title \in Titles
    /\ sl_items \in ItemLists
    /\ sl_analysis = NoAnalysis
    /\ sl_layout = ""

\* analysis = self.content_analyzer.analyze_content(slide_title, body_items)
AnalyzeContent ==
    /\ sl_pc = "input"
    /\ sl_analysis' = analyze_content(sl_title, sl_items)
    /\ sl_pc' = "analyzed"
    /\ UNCHANGED <<sl_title, sl_items, sl_layout>>
    /\ UNCHANGED <<data_vars, render_vars, font_vars, ext_vars>>

\* layout_type = self.layout_detector.detect_layout(slide_title, body_items)
DetectLayout ==
    /\ sl_pc = "analyzed"
    /\ sl_analysis.raised = ""
    /\ sl_layout' = detect_layout(sl_title, sl_items)
    /\ sl_pc' = "detected"
    /\ UNCHANGED <<sl_title, sl_items, sl_analysis>>
    /\ UNCHANGED <<data_vars, render_vars, font_vars, ext_vars>>

NextSlide == AnalyzeContent \/ DetectLayout

SpecSlide == InitSlide /\ [][NextSlide]_vars

(***************************************************************************)
(* Claims about detect_layout and analyze_content (SpecSlide)              *)
(***************************************************************************)

\* the signals of section 4.3, stated on the inputs
TitleHas(words) == ContainsAny(Lower(sl_title), words)

ContentHas(words) == ContainsAny(Lower(Join(sl_items, " ")), words)

PercentItems == {i \in 1..Len(sl_items) : Contains(sl_items[i], "%")}

TimelineTitle == TitleHas(<<"timeline", "phases", "roadmap", "schedule">>)

HierarchyTitle == TitleHas(<<"architecture", "structure", "hierarchy", "organization">>)

ComparisonTitle == TitleHas(<<"vs", "comparison", "versus">>)

MetricsTitle == TitleHas(<<"metrics", "kpi", "results", "performance">>)

QuoteRule == Len(sl_items) = 1 /\ WordCount(sl_items[1]) < 30

TimelineContent == ContentHas(<<"q1", "q2", "q3", "q4", "phase">>)

ComparisonContent == ContentHas(<<"versus", "compared to", "current", "proposed">>)

DelimitedItem ==
    \E i \in 1..Len(sl_items) : Contains(sl_items[i], "|") \/ Contains(sl_items[i], "\t")

\* C6 as stated: for every non-empty item list, of any length, a title that
\* contains a timeline keyword yields layout "timeline".
C6_AnyLength ==
    (sl_pc = "detected" /\ Len(sl_items) >= 1 /\ TimelineTitle)
        => sl_layout = "timeline"

\* C6 amended: a title that contains a timeline keyword yields layout
\* "timeline" for every item list with two or more items and for a single
\* item of 30 or more words; a single item under 30 words is a quote.
C6_TitleOutranksCount ==
    (sl_pc = "detected" /\ TimelineTitle)
        => /\ (Len(sl_items) >= 2 \/ (Len(sl_items) = 1 /\ ~QuoteRule))
                => sl_layout = "timeline"
           /\ QuoteRule => sl_layout = "quote"

C6_Witness ==
    /\ sl_pc = "detected"
    /\ sl_title = "Project Timeline"
    /\ Len(sl_items) = 5
    /\ sl_layout = "timeline"

\* C7 as stated: 4 to 6 items and a title with none of the timeline,
\* hierarchy, comparison or metrics keywords always give "grid".
C7_TitleOnly ==
    (/\ sl_pc = "detected"
     /\ Len(sl_items) \in 4..6
     /\ ~TimelineTitle /\ ~HierarchyTitle /\ ~ComparisonTitle /\ ~MetricsTitle)
        => sl_layout = "grid"

\* C7 amended: 4 to 6 items give "grid" when the title has none of the
\* timeline, hierarchy, comparison or metrics keywords and the items carry
\* none of the content signals either: no quarter or phase token, no
\* versus / compared to / current / proposed, no percent sign, no pipe or tab.
C7_GridWithoutSignals ==
    (/\ sl_pc = "detected"
     /\ Len(sl_items) \in 4..6
     /\ ~TimelineTitle /\ ~HierarchyTitle /\ ~ComparisonTitle /\ ~MetricsTitle
     /\ ~TimelineContent /\ ~ComparisonContent
     /\ PercentItems = {} /\ ~DelimitedItem)
        => sl_layout = "grid"

C7_Witness ==
    /\ sl_pc = "detected"
    /\ sl_title = "Features"
    /\ Len(sl_items) = 4
    /\ sl_items[1] = "Revenue: $500"
    /\ sl_layout = "grid"

\* C8: when the title has no metrics keyword and no quote, timeline, hierarchy
\* or comparison rule matches, the layout is "metrics" exactly when at least
\* two items contain a percent sign.
C8_TwoPercentItems ==
    (/\ sl_pc = "detected"
     /\ Len(sl_items) >= 1
     /\ ~QuoteRule
     /\ ~TimelineTitle /\ ~TimelineContent
     /\ ~HierarchyTitle
     /\ ~ComparisonTitle /\ ~ComparisonContent
     /\ ~MetricsTitle)
        => (sl_layout = "metrics" <=> Cardinality(PercentItems) >= 2)

\* C9: with an empty item list detect_layout returns "simple" whatever the
\* title, and analyze_content returns complexity "simple" and a visual_weight
\* in [0.1, 1.0] without raising a division by zero.
C9_EmptyItems ==
    (Len(sl_items) = 0)
        => /\ sl_pc = "detected" => sl_layout = "simple"
           /\ sl_pc \in {"analyzed", "detected"}
                => /\ sl_analysis.raised = ""
                   /\ sl_analysis.complexity = "simple"
                   /\ sl_analysis.visual_weight \in 1..10

C9_Witness ==
    /\ sl_pc = "detected"
    /\ Len(sl_items) = 0
    /\ sl_title = "Project Timeline"
    /\ sl_layout = "simple"
    /\ sl_analysis.complexity = "simple"

\* C19: for every title and item list the visual_weight is 0.5 plus the
\* word-count adjustment (+0.3 below 20 words, -0.2 above 80), the complexity
\* adjustment (+0.2 simple, 0 medium, -0.2 complex) and the hierarchy
\* adjustment (+0.4 level 1, +0.2 level 2, 0 level 3), limited to [0.1, 1.0].
C19_VisualWeightSum ==
    (sl_pc \in {"analyzed", "detected"} /\ sl_analysis.raised = "") =>
        LET a == sl_analysis
            words == IF a.word_count < 20 THEN 3
                     ELSE IF a.word_count > 80 THEN -2 ELSE 0
            cplx  == IF a.complexity = "simple" THEN 2
                     ELSE IF a.complexity = "complex" THEN -2 ELSE 0
            level == IF a.hierarchy_level = 1 THEN 4
                     ELSE IF a.hierarchy_level = 2 THEN 2 ELSE 0
            sum   == 5 + words + cplx + level
        IN  /\ a.visual_weight \in 1..10
            /\ a.complexity \in {"simple", "medium", "complex"}
            /\ a.hierarchy_level \in 1..3
            /\ a.visual_weight = (IF sum > 10 THEN 10 ELSE IF sum < 1 THEN 1 ELSE sum)

\* a short executive summary: the sum 1.4 is limited to 1.0
C19_Witness ==
    /\ sl_pc = "analyzed"
    /\ sl_title = "Executive Summary"
    /\ sl_analysis.word_count < 20
    /\ sl_analysis.complexity = "simple"
    /\ sl_analysis.hierarchy_level = 1
    /\ sl_analysis.visual_weight = 10

ItemWords == WordCount(Join(sl_items, " "))

\* C20: content_type is decided by the first matching rule in the order
\* title timeline keyword, title data keyword, title comparison keyword,
\* title hierarchy keyword, single item under 30 words (quote), more than 3
\* items (list_items), more than 100 words (text_heavy), default list_items.
C20_ContentTypePrecedence ==
    (sl_pc \in {"analyzed", "detected"}) =>
        LET type       == sl_analysis.content_type
            timeline   == TitleHas(<<"timeline", "phases", "roadmap", "schedule">>)
            data       == TitleHas(<<"metrics", "kpi", "results", "analysis">>)
            comparison == TitleHas(<<"vs", "comparison", "options", "alternatives">>)
            hierarchy  == TitleHas(<<"architecture", "structure", "hierarchy", "organization">>)
            no_title   == ~timeline /\ ~data /\ ~comparison /\ ~hierarchy
            quote      == Len(sl_items) = 1 /\ ItemWords < 30
        IN  /\ timeline => type = "timeline"
            /\ (~timeline /\ data) => type = "data_driven"
            /\ (~timeline /\ ~data /\ comparison) => type = "comparison"
            /\ (~timeline /\ ~data /\ ~comparison /\ hierarchy) => type = "hierarchy"
            /\ (no_title /\ quote) => type = "quote"
            /\ (no_title /\ ~quote /\ Len(sl_items) > 3) => type = "list_items"
            /\ (no_title /\ ~quote /\ Len(sl_items) <= 3 /\ ItemWords > 100)
                    => type = "text_heavy"
            /\ (no_title /\ ~quote /\ Len(sl_items) <= 3 /\ ItemWords <= 100)
                    => type = "list_items"

\* a title with a timeline and a data keyword over five items, the first of
\* more than 100 words: the earliest title rule decides
C20_Witness ==
    /\ sl_pc = "analyzed"
    /\ sl_title = "Roadmap Results"
    /\ Len(sl_items) = 5
    /\ sl_items[1] = HeavyItem
    /\ sl_analysis.content_type = "timeline"

\* C21: when no title keyword rule and no quote rule matches and there are
\* at most 3 items, content_type is "text_heavy" exactly when the combined
\* word count of title plus items, the count reported as word_count, is
\* greater than 100.
C21_TextHeavyByWordCount ==
    (/\ sl_pc \in {"analyzed", "detected"}
     /\ ~TitleHas(<<"timeline", "phases", "roadmap", "schedule">>)
     /\ ~TitleHas(<<"metrics", "kpi", "results", "analysis">>)
     /\ ~TitleHas(<<"vs", "comparison", "options", "alternatives">>)
     /\ ~TitleHas(<<"architecture", "structure", "hierarchy", "organization">>)
     /\ ~(Len(sl_items) = 1 /\ ItemWords < 30)
     /\ Len(sl_items) <= 3)
        => (sl_analysis.content_type = "text_heavy" <=> sl_analysis.word_count > 100)

(***************************************************************************)
(* detect_data_pattern on bounded inputs                                   *)
(***************************************************************************)

\* most items of a content list handed to detect_data_pattern
MaxDataItems == 3

\* calls of detect_data_pattern in one behaviour
MaxCalls == 2

DataVocab ==
    {"A: 30%", "Revenue: $500", "Q1 2025: 30%", "Q2 2025: 1,200 units",
     "No numbers here", "Growth 12.5% from 80 to 90", "March 2024: 40 units",
     "Target 1500",
     "Annual recurring revenue for the northern region: 900"}

DataLists ==
    {<< >>} \cup UNION {[1..n -> DataVocab] : n \in 1..MaxDataItems}

InitData ==
    /\ ExtIdle
    /\ SlideIdle
    /\ RenderIdle
    /\ FontIdle
    /\ dp_calls = 0
    /\ dp_items \in DataLists
    /\ dp_result = NoDataPattern

\* items of a call that follows another call: the same list again, or
\* another slide's short list
LaterInputs == {<< >>, <<"Target 1500">>, <<"A: 30%">>}

\* chart_data = self.chart_generator.detect_data_pattern(items)
DetectDataPattern ==
    /\ dp_calls < MaxCalls
    /\ \E items \in (IF dp_calls = 0 THEN {dp_items} ELSE {dp_items} \cup LaterInputs) :
        /\ dp_items' = items
        /\ dp_result' = detect_data_pattern(items)
    /\ dp_calls' = dp_calls + 1
    /\ UNCHANGED <<slide_vars, render_vars, font_vars, ext_vars>>

NextData == DetectDataPattern

SpecData == InitData /\ [][NextData]_vars

\* C10: the result has as many labels as values, no label is longer than 30
\* characters, and chart_type is "pie" exactly when has_percentages holds with
\* at least 2 values, "line" exactly when that fails but has_timeline holds
\* with at least 2 values, "bar" exactly when neither flag is set and there
\* are at least 2 values, and None otherwise.
C10_DataPatternInvariant ==
    (dp_calls > 0) =>
        LET r == dp_result
            n == Len(r.data)
        IN  /\ Len(r.labels) = n
            /\ \A k \in 1..Len(r.labels) : Len(r.labels[k]) <= 30
            /\ r.chart_type \in {"pie", "line", "bar", None}
            /\ r.chart_type = "pie"  <=> (r.has_percentages /\ n >= 2)
            /\ r.chart_type = "line" <=> (~r.has_percentages /\ r.has_timeline /\ n >= 2)
            /\ r.chart_type = "bar"  <=> (~r.has_percentages /\ ~r.has_timeline /\ n >= 2)
            /\ r.chart_type = None   <=> (n < 2)

\* a pie chart from items that also carry a timeline token, with a truncated label
C10_Witness ==
    /\ dp_calls > 0
    /\ dp_result.chart_type = "pie"
    /\ dp_result.has_timeline
    /\ \E k \in 1..Len(dp_result.labels) : Len(dp_result.labels[k]) = 30

HasPercentage(item) == \E i \in 1..Len(item) : MatchPercentage(item, i).found

HasNumber(item) == \E i \in 1..Len(item) : MatchNumeric(item, i).found

RECURSIVE PercentValues(_)
\* the percentage tokens of the items, item by item, as values
PercentValues(items) ==
    IF Len(items) = 0 THEN << >>
    ELSE LET tokens == FindAll("percentage_pattern", Head(items), 1)
         IN  [k \in 1..Len(tokens) |-> ParseFloat(tokens[k])]
             \o PercentValues(Tail(items))

\* C11: for every list of items that each contain a percentage token, the
\* values are exactly those percentages in input order; a bare number of an
\* item that has a percentage is never counted as a second value.
C11_PercentagesOnlyOnce ==
    (dp_calls > 0 /\ \A k \in 1..Len(dp_items) : HasPercentage(dp_items[k]))
        => /\ dp_result.data = PercentValues(dp_items)
           /\ Len(dp_result.labels) = Len(dp_result.data)

\* two percentage items, one of which also holds bare numbers, give two values
C11_Witness ==
    /\ dp_calls > 0
    /\ Len(dp_items) = 2
    /\ \A k \in 1..2 : HasPercentage(dp_items[k])
    /\ \E k \in 1..2 :
         Len(FindAll("numeric_pattern", dp_items[k], 1))
            > Len(FindAll("percentage_pattern", dp_items[k], 1))
    /\ Len(dp_result.data) = 2
    /\ dp_result.chart_type = "pie"

MonthNames ==
    {"january", "february", "march", "april", "may", "june", "july", "august",
     "september", "october", "november", "december",
     "jan", "feb", "mar", "apr", "jun", "jul", "aug", "sep", "sept", "oct", "nov", "dec"}

\* the index after `\s*\d{4}` tried at index p of s, 0 when it does not match
YearEnd(s, p) ==
    LET w == SpacesEnd(s, p)
    IN  IF w + 3 <= Len(s) /\ \A k \in w..(w + 3) : IsDigit(Ch(s, k))
        THEN w + 4 ELSE 0

\* the index after a quarter (Q1 to Q4) or month name followed by a 4-digit
\* year that starts at index i of s, 0 when none starts there
QuarterOrMonthYearEnd(s, i) ==
    LET l == LettersEnd(s, i)
        word == Lower(SubSeq(s, i, l - 1))
        word_start == i = 1 \/ ~IsLetter(Ch(s, i - 1))
    IN  IF /\ i + 1 <= Len(s)
           /\ Ch(s, i) = "Q"
           /\ Ch(s, i + 1) \in {"1", "2", "3", "4"}
        THEN YearEnd(s, i + 2)
        ELSE IF word_start /\ word \in MonthNames
        THEN YearEnd(s, l)
        ELSE 0

HasQuarterOrMonthYear(item) ==
    \E i \in 1..Len(item) : QuarterOrMonthYearEnd(item, i) > 0

\* C12: has_timeline is set only when some item holds a quarter token or a
\* month name followed by a 4-digit year; items in which another word is
\* followed by a 4-digit number leave it unset, so two such items with bare
\* numbers give "bar".
C12_TimelineOnlyQuarterOrMonth ==
    (dp_calls > 0) =>
        /\ dp_result.has_timeline
            => \E k \in 1..Len(dp_items) : HasQuarterOrMonthYear(dp_items[k])
        /\ (/\ \A k \in 1..Len(dp_items) :
                    ~HasQuarterOrMonthYear(dp_items[k]) /\ ~HasPercentage(dp_items[k])
            /\ Len(dp_result.data) >= 2)
            => dp_result.chart_type = "bar"

RECURSIVE WithoutTimelineTokens(_, _)
\* s from index i on with every quarter-or-month-plus-year token blanked
WithoutTimelineTokens(s, i) ==
    IF i > Len(s) THEN ""
    ELSE LET e == QuarterOrMonthYearEnd(s, i)
         IN  IF e > 0 THEN " " \o WithoutTimelineTokens(s, e)
             ELSE Ch(s, i) \o WithoutTimelineTokens(s, i + 1)

RECURSIVE AmountValues(_)
\* the numbers of the items that are not part of a timeline token
AmountValues(items) ==
    IF Len(items) = 0 THEN << >>
    ELSE LET tokens == FindAll("numeric_pattern", WithoutTimelineTokens(Head(items), 1), 1)
         IN  [k \in 1..Len(tokens) |-> ParseFloat(RemoveCommas(tokens[k]))]
             \o AmountValues(Tail(items))

\* C13: a timeline token produces no values: for items without a percentage,
\* the digits of a quarter and of its year are not appended, so the values
\* are the items' data amounts only.
C13_TimelineTokenYieldsNoValue ==
    (dp_calls > 0 /\ \A k \in 1..Len(dp_items) : ~HasPercentage(dp_items[k]))
        => dp_result.data = AmountValues(dp_items)

\* C14: when the input yields exactly one data point and it is a percentage,
\* the result has no chart, has_percentages is true and the values hold that
\* percentage; on input with no numeric token the result has no chart and
\* empty values and labels.
C14_SinglePointAndNoData ==
    (dp_calls > 0) =>
        /\ (Len(dp_result.data) = 1 /\ dp_result.has_percentages)
            => /\ dp_result.chart_type = None
               /\ dp_result.data = PercentValues(dp_items)
        /\ (\A k \in 1..Len(dp_items) : ~HasNumber(dp_items[k]))
            => /\ dp_result.chart_type = None
               /\ dp_result.data = << >>
               /\ dp_result.labels = << >>
               /\ ~dp_result.has_percentages

\* one item with one percentage among items without numbers
C14_Witness ==
    /\ dp_calls > 0
    /\ Len(dp_items) = 2
    /\ \E k \in 1..2 : ~HasNumber(dp_items[k])
    /\ dp_result.has_percentages
    /\ dp_result.data = <<30 * ValueScale>>
    /\ dp_result.chart_type = None

\* what one call on items returns when nothing was called before it
FreshCall(items) ==
    LET scanned == ScanItems(NoDataPattern, items)
    IN  [scanned EXCEPT !.chart_type = ChartType(scanned)]

WeightRange == 30

\* largest word_count argument
MaxWordCount == 200

Weights == (0 - WeightRange)..WeightRange

WordCounts == {-1, 0, 19, 20, 21, 79, 80, 81, MaxWordCount}

\* the values of class ContentType and a string that is none of them
ContentTypes ==
    {"text_heavy", "data_driven", "list_items", "comparison", "timeline",
     "hierarchy", "quote", "image_text", "unknown"}

InitFont ==
    /\ ExtIdle
    /\ SlideIdle
    /\ DataIdle
    /\ RenderIdle
    /\ fs_pc = "input"
    /\ fs_weight \in Weights
    /\ fs_words \in WordCounts
    /\ fs_type \in ContentTypes
    /\ fs_sizes = NoSizes

\* font_sizes = self.design_rules.calculate_optimal_font_sizes(...)
CalculateFontSizes ==
    /\ fs_pc = "input"
    /\ fs_sizes' = calculate_optimal_font_sizes(fs_weight, fs_words, fs_type)
    /\ fs_pc' = "returned"
    /\ UNCHANGED <<fs_weight, fs_words, fs_type>>
    /\ UNCHANGED <<slide_vars, data_vars, render_vars, ext_vars>>

NextFont == CalculateFontSizes

SpecFont == InitFont /\ [][NextFont]_vars

RoundNearest(a, b) == (2 * a + b) \div (2 * b)

\* no volume or content-type delta applies to the arguments
NoDeltas ==
    /\ fs_words >= 20
    /\ fs_words <= 80
    /\ fs_type \notin {"quote", "data_driven"}

\* C17: before the deltas are applied, the title size is
\* 32 x (0.7 + 0.8 x visual_weight) and the body size is
\* 18 x (0.8 + 0.4 x visual_weight), each rounded to the nearest integer, for
\* every visual_weight in 0.1, 0.2, ..., 1.0 (read on calls to which no delta
\* applies, where the returned sizes are those values).
C17_BaseSizesRounded ==
    (fs_pc = "returned" /\ fs_weight \in 1..10 /\ NoDeltas) =>
        /\ fs_sizes.title = RoundNearest(2240 + 256 * fs_weight, 100)
        /\ fs_sizes.body = RoundNearest(1440 + 72 * fs_weight, 100)

\* C18: the caption size equals the returned body size minus 4, limited to
\* [10, 14], and is strictly smaller than the returned body size.
C18_CaptionFromBody ==
    (fs_pc = "returned") =>
        /\ fs_sizes.caption = Max(10, Min(14, fs_sizes.body - 4))
        /\ fs_sizes.caption < fs_sizes.body

\* a body size above its upper limit: the caption is held at 14 under a body of 24
C18_Witness ==
    /\ fs_pc = "returned"
    /\ BodySize(fs_weight, fs_words, fs_type) > 24
    /\ fs_sizes.body = 24
    /\ fs_sizes.caption = 14

(***************************************************************************)
(* The render pipeline on bounded decks                                    *)
(***************************************************************************)

\* most layouts of a deck
MaxLayouts == 2

\* render_with_ai_design calls in one behaviour
MaxRuns == 2

Placeholder(id, type, content) == [id |-> id, type |-> type, content |-> content]

LayoutVocab ==
    {[name |-> "Timeline",
      placeholders |->
        <<Placeholder("title", "text", "Our Plan"),
          Placeholder("body", "text",
                      "Step one\nStep two\nStep three\nStep four\nStep five")>>],
     [name |-> "grid",
      placeholders |->
        <<Placeholder("heading", "text", "Project Timeline"),
          Placeholder("body", "text", "Phase 1\n\n  Phase 2  ")>>],
     [name |-> "My Custom Slide",
      placeholders |->
        <<Placeholder("main_title", "title", "Patient Metrics"),
          Placeholder("subtitle", "text", "Hospital KPIs"),
          Placeholder("body", "text", "Revenue: 50%\nGrowth: 30%")>>],
     [name |-> "",
      placeholders |->
        <<Placeholder("p1", "title", "Bank Software"),
          Placeholder("p2", "body", "Secure API")>>]}

Decks == UNION {[1..n -> LayoutVocab] : n \in 0..MaxLayouts}

\* tokens.colors of the spec: absent, or a map of overrides
ColorTokens ==
    {NoneValue,
     Dict([primary |-> Str("#FF0000"), text |-> Str("red"),
           background |-> JsonNum("16711680")]),
     Dict([accent |-> Str("#GGGGGG")])}

SpecInputs == {[colors |-> c, layouts |-> d] : c \in ColorTokens, d \in Decks}

\* what json.loads(content) can return for a 2xx response
AiBodies ==
    {Dict([industry |-> Str("Healthcare"), style |-> Str("modern")]),
     Dict([industry |-> Str("quantum computing")]),
     Dict([style |-> Str("modern")]),
     Dict([industry |-> JsonNull, style |-> Str("modern")]),
     Dict(<< >>),
     [kind |-> "list", fields |-> [item0 |-> Str("healthcare")]]}

Init ==
    /\ ExtIdle
    /\ SlideIdle
    /\ DataIdle
    /\ FontIdle
    /\ has_ai \in BOOLEAN
    /\ catalog = StaticCatalog
    /\ runs = 0
    /\ pc = "idle"
    /\ NoCall

\* render_with_ai_design when no AI analysis is requested: no generator or
\* no company_info
RenderLocal ==
    /\ pc = "idle"
    /\ runs < MaxRuns
    /\ \E data \in SpecInputs, info \in BOOLEAN :
        /\ ~(has_ai /\ info)
        /\ spec_data' = data
        /\ company_info' = info
        /\ ai_request' = "none"
        /\ RenderWith(data, analyze_content_with_ai(FALSE, "none", NoneValue))
    /\ UNCHANGED <<has_ai, runs>>
    /\ UNCHANGED <<slide_vars, data_vars, font_vars, ext_vars>>

\* render_with_ai_design up to `await self.client.post(...)`
RenderRequestAI ==
    /\ pc = "idle"
    /\ runs < MaxRuns
    /\ has_ai
    /\ \E data \in SpecInputs :
        /\ spec_data' = data
        /\ company_info' = TRUE
    /\ ai_request' = "sent"
    /\ pc' = "awaiting_ai"
    /\ UNCHANGED <<has_ai, catalog, runs, ai_analysis, design_theme, slides>>
    /\ UNCHANGED <<slide_vars, data_vars, font_vars, ext_vars>>

\* the request raises, returns a non-2xx status or a body that does not parse;
\* the call resumes and runs to its end
AIRequestFails ==
    /\ pc = "awaiting_ai"
    /\ \E failure \in RequestFailures :
        /\ ai_request' = failure
        /\ RenderWith(spec_data, analyze_content_with_ai(TRUE, failure, NoneValue))
    /\ UNCHANGED <<has_ai, runs, spec_data, company_info>>
    /\ UNCHANGED <<slide_vars, data_vars, font_vars, ext_vars>>

\* the request returns a 2xx response whose content parses as JSON;
\* the call resumes and runs to its end
AIResponds ==
    /\ pc = "awaiting_ai"
    /\ \E body \in AiBodies :
        /\ ai_request' = "ok"
        /\ RenderWith(spec_data, analyze_content_with_ai(TRUE, "ok", body))
    /\ UNCHANGED <<has_ai, runs, spec_data, company_info>>
    /\ UNCHANGED <<slide_vars, data_vars, font_vars, ext_vars>>

\* the call has returned or raised: its locals are gone, the theme objects stay
Return ==
    /\ pc \in {"returned", "raised"}
    /\ pc' = "idle"
    /\ runs' = runs + 1
    /\ spec_data' = NoSpec
    /\ company_info' = FALSE
    /\ ai_request' = "none"
    /\ ai_analysis' = NoneValue
    /\ design_theme' = None
    /\ slides' = << >>
    /\ UNCHANGED <<has_ai, catalog>>
    /\ UNCHANGED <<slide_vars, data_vars, font_vars, ext_vars>>

Next == RenderLocal \/ RenderRequestAI \/ AIRequestFails \/ AIResponds \/ Return

Spec == Init /\ [][Next]_vars

(***************************************************************************)
(* Claims about theme resolution and the render pipeline (Spec)            *)
(***************************************************************************)

HexDigitChars == DigitChars \cup {"a", "b", "c", "d", "e", "f", "A", "B", "C", "D", "E", "F"}

\* '#' followed by six hexadecimal digits
IsHexColor(v) ==
    /\ Len(v) = 7
    /\ Ch(v, 1) = "#"
    /\ \A k \in 2..7 : Ch(v, k) \in HexDigitChars

\* the theme a call with no AI generator resolves from the deck's content
LocalTheme(data) ==
    get_design_theme(StaticCatalog, analyze_content_with_ai(FALSE, "none", NoneValue),
                     _extract_all_content(data), NoneValue).theme

\* C1: resolving a deck's theme never changes the theme catalog: after any
\* sequence of get_design_theme calls, with or without overrides, every
\* catalog theme's colors equal their static definition.
C1_CatalogNeverChanges == catalog = StaticCatalog

\* C2: when an AI generator is configured and its remote request fails, the
\* theme of the deck is the one the local keyword detector selects from the
\* deck's content, as in a run with no AI generator.
C2_FailedRequestUsesLocalDetector ==
    (pc = "returned" /\ ai_request \in RequestFailures)
        => design_theme = LocalTheme(spec_data)

\* C3: whatever the AI request does, the run resolves a theme and renders one
\* slide per layout; no outcome of the AI call makes the render abort.
C3_AIOutcomeNeverAborts ==
    /\ pc # "raised"
    /\ pc = "returned"
        => /\ design_theme \in ThemeKeys
           /\ Len(slides) = Len(spec_data.layouts)

\* C4: a color override changes a palette entry only if its value is '#'
\* followed by six hexadecimal digits; every other value leaves the palette
\* entry as it was.
C4_OnlyHexOverridesApplied ==
    [][\A t \in ThemeKeys : \A key \in DOMAIN catalog'[t] :
          (key \notin DOMAIN catalog[t] \/ catalog'[t][key] # catalog[t][key])
              => IsHexColor(catalog'[t][key])]_vars

TenPatternNames ==
    {"title", "quote", "timeline", "hierarchy", "comparison",
     "metrics", "table", "grid", "multi_column", "simple"}

\* C5: a layout whose lower-cased name is one of the ten pattern names is
\* rendered with that layout type whatever its title and items are; every
\* other layout is rendered with detect_layout(title, items).
C5_KnownNameOverrides ==
    (pc = "returned") =>
        /\ Len(slides) = Len(spec_data.layouts)
        /\ \A i \in 1..Len(slides) :
            LET layout  == spec_data.layouts[i]
                content == SlideContent(layout)
                name    == Lower(layout.name)
            IN  IF name \in TenPatternNames
                THEN slides[i] = name
                ELSE slides[i] = detect_layout(content.slide_title, content.body_items)

\* a slide named "Timeline" with five plain items is rendered as a timeline
\* although detection alone would choose the grid
C5_Witness ==
    /\ pc = "returned"
    /\ \E i \in 1..Len(slides) :
        LET content == SlideContent(spec_data.layouts[i])
        IN  /\ spec_data.layouts[i].name = "Timeline"
            /\ Len(content.body_items) = 5
            /\ detect_layout(content.slide_title, content.body_items) = "grid"
            /\ slides[i] = "timeline"

(***************************************************************************)
(* get_smart_theme on bounded inputs                                       *)
(***************************************************************************)

MaxThemeCalls == 2

Industries == {"", "healthcare", "finance", "aerospace", "Technology"}

Styles == {"", "modern", "minimal", "bold", "professional"}

Formalities == {"", "formal", "casual", "business"}

Audiences == {"", "c-suite executives", "developers", "investors", "general public"}

InitTheme ==
    /\ SlideIdle
    /\ DataIdle
    /\ RenderIdle
    /\ FontIdle
    /\ IdleButTheme
    /\ th_calls = 0
    /\ th_args \in [industry : Industries, style : Styles,
                    formality : Formalities, audience : Audiences]
    /\ th_theme = ""

\* theme = DesignTemplateLibrary.get_smart_theme(industry, style, formality, audience)
GetSmartTheme ==
    /\ th_calls < MaxThemeCalls
    /\ th_theme' = get_smart_theme(th_args.industry, th_args.style,
                                   th_args.formality, th_args.audience)
    /\ th_calls' = th_calls + 1
    /\ UNCHANGED th_args
    /\ UNCHANGED theme_frame

NextTheme == GetSmartTheme

SpecTheme == InitTheme /\ [][NextTheme]_vars

\* the signals named are the only ones given
OnlyIndustry(args) ==
    args.style = "" /\ args.formality = "" /\ args.audience = ""

\* C22: a call with industry 'healthcare' and no other signal returns the
\* Healthcare Professional theme, a call with all four signals empty returns
\* the Corporate Professional theme, and a call with the arguments of the
\* call before it returns the theme that call returned.
C22_HealthcareDefaultDeterministic ==
    [][/\ (th_args'.industry = "healthcare" /\ OnlyIndustry(th_args'))
            => ThemeName[th_theme'] = "Healthcare Professional"
       /\ (th_args'.industry = "" /\ OnlyIndustry(th_args'))
            => ThemeName[th_theme'] = "Corporate Professional"
       /\ (th_calls > 0 /\ th_args' = th_args) => th_theme' = th_theme]_vars

\* the second call with industry 'healthcare' alone has returned
C22_Witness ==
    /\ th_calls = 2
    /\ th_args.industry = "healthcare"
    /\ OnlyIndustry(th_args)
    /\ th_theme = "healthcare"

\* the score of a theme as the four weights add up for the call's arguments
ScoreOf(name) ==
    smart_theme_scores(th_args.industry, th_args.style,
                       th_args.formality, th_args.audience)[name]

\* position of a theme in the catalog order
CatalogIndex(name) == CHOOSE k \in 1..Len(CatalogOrder) : CatalogOrder[k] = name

IndustryKeywords ==
    <<"government", "public", "municipal", "consulting", "advisory", "strategy",
      "startup", "venture", "innovation", "health", "medical", "pharma", "biotech",
      "finance", "bank", "investment", "money", "security", "cyber", "protection",
      "risk", "education", "training", "learning", "school", "tech", "software",
      "digital">>

\* the style is a key of the style map, contains one or is contained in one
StyleResolves(style) ==
    \E k \in 1..Len(StyleMap) :
        \/ Contains(Lower(style), StyleMap[k][1])
        \/ Contains(StyleMap[k][1], Lower(style))

\* C24: with an industry that contains no industry keyword, a style that
\* resolves to a theme and no other signal, the style's theme is returned.
C24_UnmatchedIndustryAddsNothing ==
    (/\ th_calls > 0
     /\ th_args.industry # ""
     /\ ~ContainsAny(Lower(th_args.industry), IndustryKeywords)
     /\ th_args.style # ""
     /\ StyleResolves(th_args.style)
     /\ th_args.formality = ""
     /\ th_args.audience = "")
        => th_theme = get_theme_by_style(th_args.style)

(***************************************************************************)
(* SmartDesignRules.calculate_dynamic_positioning                          *)
(***************************************************************************)

\* inches are held in units of 1/PosScale inch; slide_width and slide_height
\* arrive in thousandths of an inch, so slide_width * 0.15 is 15 * slide_width
PosScale == 100000

PosMargin == PosScale \div 2

\* total_chars = sum(len(str(item)) for item in content_items)
RECURSIVE TotalChars(_)
TotalChars(content_items) ==
    IF content_items = << >> THEN 0
    ELSE Len(Head(content_items)) + TotalChars(Tail(content_items))

\* the sparse test comes before the dense one
calculate_dynamic_positioning_sparse_first(content_items, slide_width, slide_height, has_title) ==
    LET item_count == Len(content_items)
        total_chars == TotalChars(content_items)
        title_height == IF has_title THEN 20 * slide_height ELSE 0
        margin == PosMargin
        body_y == IF has_title THEN title_height + margin \div 2 ELSE margin
        body_height == 100 * slide_height - body_y - margin
    IN  IF item_count <= 1
        THEN [x |-> 15 * slide_width, y |-> body_y,
              width |-> 70 * slide_width, height |-> body_height]
        ELSE IF total_chars > 500 \/ item_count > 8
        THEN [x |-> margin, y |-> body_y,
              width |-> 100 * slide_width - 2 * margin, height |-> body_height]
        ELSE [x |-> margin + 3 * (PosScale \div 10), y |-> body_y,
              width |-> 100 * slide_width - 2 * margin - 6 * (PosScale \div 10),
              height |-> body_height]

calculate_dynamic_positioning(content_items, slide_width, slide_height, has_title) ==
    LET item_count == Len(content_items)
        total_chars == TotalChars(content_items)
        title_height == IF has_title THEN 20 * slide_height ELSE 0
        margin == PosMargin
        body_y == IF has_title THEN title_height + margin \div 2 ELSE margin
        body_height == 100 * slide_height - body_y - margin
    IN  IF total_chars > 500 \/ item_count > 8
        THEN [x |-> margin, y |-> body_y,
              width |-> 100 * slide_width - 2 * margin, height |-> body_height]
        ELSE IF item_count <= 1
        THEN [x |-> 15 * slide_width, y |-> body_y,
              width |-> 70 * slide_width, height |-> body_height]
        ELSE [x |-> margin + 3 * (PosScale \div 10), y |-> body_y,
              width |-> 100 * slide_width - 2 * margin - 6 * (PosScale \div 10),
              height |-> body_height]

MaxPosItems == 9

MaxMixedItems == 2

ShortItem == "Key point"

\* 250 characters
Block == Repeat(Repeat("x", 50), 5)

\* an item of 251 characters: two of them are dense, one is not
HalfItem == Block \o "x"

\* an item of 501 characters: dense on its own
DenseItem == Block \o Block \o "x"

PosItemVocab == {ShortItem, HalfItem, DenseItem}

\* lists of up to MaxMixedItems items of any length and lists of up to
\* MaxPosItems short items
PosItemLists ==
    UNION {[1..n -> PosItemVocab] : n \in 0..MaxMixedItems}
        \cup {[k \in 1..n |-> ShortItem] : n \in 0..MaxPosItems}

SlideWidths == {10000, 13333}

SlideHeights == {5625, 7500}

InitPos ==
    /\ SlideIdle
    /\ DataIdle
    /\ RenderIdle
    /\ FontIdle
    /\ IdleButPos
    /\ pos_pc = "input"
    /\ pos_args \in [content_items : PosItemLists, slide_width : SlideWidths,
                     slide_height : SlideHeights, has_title : BOOLEAN]
    /\ pos_result = [x |-> 0, y |-> 0, width |-> 0, height |-> 0]

\* pos = SmartDesignRules.calculate_dynamic_positioning(items, width, height, has_title)
CalculateDynamicPositioning ==
    /\ pos_pc = "input"
    /\ pos_result' = calculate_dynamic_positioning(pos_args.content_items,
                        pos_args.slide_width, pos_args.slide_height, pos_args.has_title)
    /\ pos_pc' = "returned"
    /\ UNCHANGED pos_args
    /\ UNCHANGED pos_frame

NextPos == CalculateDynamicPositioning

SpecPos == InitPos /\ [][NextPos]_vars

\* the body region is centered with 15% of the slide width on each side
Centered ==
    /\ pos_result.x = 15 * pos_args.slide_width
    /\ pos_result.width = 70 * pos_args.slide_width

\* the body region starts at 0.5 and is the slide width less 1.0
FullWidth ==
    /\ pos_result.x = PosScale \div 2
    /\ pos_result.width = 100 * pos_args.slide_width - PosScale

\* more than 500 characters in total or more than 8 items
Dense ==
    \/ TotalChars(pos_args.content_items) > 500
    \/ Len(pos_args.content_items) > 8

\* C25, as stated: every list of at most one item gets the centered region
\* whatever the item's length, and dense content gets the full width.
C25_SparseCenteredWhateverLength ==
    (pos_pc = "returned") =>
        /\ Len(pos_args.content_items) <= 1 => Centered
        /\ Dense => FullWidth

\* C25, amended: a list of at most one item and at most 500 characters gets
\* the centered region, and dense content gets the full width.
C25_SparseCenteredUnlessDense ==
    (pos_pc = "returned") =>
        /\ (Len(pos_args.content_items) <= 1 /\ ~Dense) => Centered
        /\ Dense => FullWidth

\* a single item of more than 500 characters was given the full width
C25_Witness ==
    /\ pos_pc = "returned"
    /\ Len(pos_args.content_items) = 1
    /\ Dense
    /\ FullWidth
    /\ ~Centered

(***************************************************************************)
(* cms_ai.spec_validator                                                   *)
(*                                                                         *)
(* A JSON number is held in hundredths: JNum(30) is 0.3.  A Python float   *)
(* is a pair <<h, e>>: h hundredths, and e the sign of its difference from *)
(* the double nearest to h/100, which is what float(h/100) is.             *)
(***************************************************************************)

JNum(v) == [num |-> TRUE, v |-> v]

\* a JSON value that is no number: null, a string, a missing key
JNull == [num |-> FALSE, v |-> 0]

\* the coordinates the inputs are built from, in hundredths
Coords == {0, 10, 20, 30, 40, 50}

\* the pairs of Coords whose IEEE 754 double sum is above the double nearest
\* to the decimal sum (0.1 + 0.2 is 0.30000000000000004); no sum of two of
\* Coords is below it
SumRoundsUp == {<<10, 20>>, <<20, 10>>, <<20, 40>>, <<40, 20>>}

\* a + b of two floats that came from decimals
FloatAdd(a, b) == <<a + b, IF <<a, b>> \in SumRoundsUp THEN 1 ELSE 0>>

\* float(h/100)
Float(h) == <<h, 0>>

\* p <= q on floats
FloatLeq(p, q) == p[1] < q[1] \/ (p[1] = q[1] /\ p[2] <= q[2])

\* str(n) of a natural number
RECURSIVE IntStr(_)
IntStr(n) ==
    IF n < 10 THEN Ch(Digits, n + 1)
    ELSE IntStr(n \div 10) \o Ch(Digits, (n % 10) + 1)

ValidationError(path, message) == [path |-> path, message |-> message]

_rects_overlap(ax, ay, aw, ah, bx, by, bw, bh) ==
    IF FloatLeq(FloatAdd(ax, aw), Float(bx)) \/ FloatLeq(FloatAdd(bx, bw), Float(ax))
    THEN FALSE
    ELSE IF FloatLeq(FloatAdd(ay, ah), Float(by)) \/ FloatLeq(FloatAdd(by, bh), Float(ay))
    THEN FALSE
    ELSE TRUE

\* the id the overlap message names: the placeholder's id, or
\* f"{layout_index}:{placeholder_index}" when it has none
PlaceholderId(layout_index, placeholder_index, placeholder) ==
    IF Strip(placeholder.id) = ""
    THEN IntStr(layout_index) \o ":" \o IntStr(placeholder_index)
    ELSE placeholder.id

\* the margin and fit checks of a placeholder whose geometry is numeric and
\* of positive size; the rectangle is kept whatever they find
MarginErrors(path, g, safe_margin) ==
    (IF g.x.v < safe_margin \/ g.y.v < safe_margin
     THEN <<ValidationError(path \o ".geometry", "x/y must respect safe margins")>>
     ELSE << >>)
    \o
    (IF \/ ~FloatLeq(FloatAdd(g.x.v, g.w.v), Float(100 - safe_margin))
        \/ ~FloatLeq(FloatAdd(g.y.v, g.h.v), Float(100 - safe_margin))
     THEN <<ValidationError(path \o ".geometry", "geometry must fit within safe margins")>>
     ELSE << >>)

\* one round of the placeholder loop: the errors it appends and the
\* rectangle it appends to rects, if any
CheckPlaceholder(layout_index, placeholder_index, placeholder, safe_margin) ==
    LET path == "$.layouts[" \o IntStr(layout_index) \o "].placeholders["
                    \o IntStr(placeholder_index) \o "]"
        g == placeholder.geometry
        only(e) == [errors |-> <<e>>, rects |-> << >>]
        id_errors == IF Strip(placeholder.id) = ""
                     THEN <<ValidationError(path \o ".id", "id is required")>>
                     ELSE << >>
        stop(e) == [errors |-> id_errors \o <<e>>, rects |-> << >>]
    IN  IF ~placeholder.dict
        THEN only(ValidationError(path, "placeholder must be an object"))
        ELSE IF ~g.dict
        THEN stop(ValidationError(path \o ".geometry", "geometry must be an object with x/y/w/h"))
        ELSE IF ~g.x.num
        THEN stop(ValidationError(path \o ".geometry.x", "x must be a number"))
        ELSE IF ~g.y.num
        THEN stop(ValidationError(path \o ".geometry.y", "y must be a number"))
        ELSE IF ~g.w.num
        THEN stop(ValidationError(path \o ".geometry.w", "w must be a number"))
        ELSE IF ~g.h.num
        THEN stop(ValidationError(path \o ".geometry.h", "h must be a number"))
        ELSE IF g.w.v <= 0 \/ g.h.v <= 0
        THEN stop(ValidationError(path \o ".geometry", "w and h must be > 0"))
        ELSE [errors |-> id_errors \o MarginErrors(path, g, safe_margin),
              rects |-> <<<<g.x.v, g.y.v, g.w.v, g.h.v,
                            PlaceholderId(layout_index, placeholder_index, placeholder)>>>>]

\* the placeholder loop from index k (0-based) on
RECURSIVE CheckPlaceholders(_, _, _, _)
CheckPlaceholders(layout_index, placeholders, k, safe_margin) ==
    IF k >= Len(placeholders) THEN [errors |-> << >>, rects |-> << >>]
    ELSE LET one  == CheckPlaceholder(layout_index, k, placeholders[k + 1], safe_margin)
             rest == CheckPlaceholders(layout_index, placeholders, k + 1, safe_margin)
         IN  [errors |-> one.errors \o rest.errors, rects |-> one.rects \o rest.rects]

\* the inner loop `for j in range(i + 1, len(rects))`, 1-based here
RECURSIVE OverlapsFrom(_, _, _, _)
OverlapsFrom(layout_path, rects, i, j) ==
    IF j > Len(rects) THEN << >>
    ELSE (IF _rects_overlap(rects[i][1], rects[i][2], rects[i][3], rects[i][4],
                            rects[j][1], rects[j][2], rects[j][3], rects[j][4])
          THEN <<ValidationError(layout_path,
                    "placeholders overlap: " \o rects[i][5] \o " and " \o rects[j][5])>>
          ELSE << >>)
         \o OverlapsFrom(layout_path, rects, i, j + 1)

\* the outer loop `for i in range(len(rects))`
RECURSIVE OverlapErrors(_, _, _)
OverlapErrors(layout_path, rects, i) ==
    IF i > Len(rects) THEN << >>
    ELSE OverlapsFrom(layout_path, rects, i, i + 1)
            \o OverlapErrors(layout_path, rects, i + 1)

\* the errors one round of the layout loop appends
CheckLayout(layout_index, layout, safe_margin) ==
    LET layout_path == "$.layouts[" \o IntStr(layout_index) \o "]"
        name_errors == IF Strip(layout.name) = ""
                       THEN <<ValidationError(layout_path \o ".name", "name is required")>>
                       ELSE << >>
        checked == CheckPlaceholders(layout_index, layout.placeholders.items, 0, safe_margin)
    IN  IF ~layout.dict
        THEN <<ValidationError(layout_path, "layout must be an object")>>
        ELSE IF ~layout.placeholders.list \/ layout.placeholders.items = << >>
        THEN name_errors \o <<ValidationError(layout_path \o ".placeholders",
                                    "placeholders must be a non-empty array")>>
        ELSE name_errors \o checked.errors \o OverlapErrors(layout_path, checked.rects, 1)

\* the layout loop from index k (0-based) on
RECURSIVE CheckLayouts(_, _, _)
CheckLayouts(layouts, k, safe_margin) ==
    IF k >= Len(layouts) THEN << >>
    ELSE CheckLayout(k, layouts[k + 1], safe_margin)
            \o CheckLayouts(layouts, k + 1, safe_margin)

\* safe_margin = constraints.get("safeMargin", 0.05)
SafeMarginOf(spec) ==
    IF spec.constraints.dict /\ spec.constraints.has_safeMargin
    THEN spec.constraints.safeMargin
    ELSE JNum(5)

BadSafeMargin(m) == ~m.num \/ m.v < 0 \/ m.v >= 50

validate_template_spec(spec) ==
    LET token_errors == IF ~spec.tokens_dict
                        THEN <<ValidationError("$.tokens", "tokens must be an object")>>
                        ELSE << >>
        raw == SafeMarginOf(spec)
        margin_errors == IF BadSafeMargin(raw)
                         THEN <<ValidationError("$.constraints.safeMargin",
                                    "safeMargin must be a number in [0, 0.5)")>>
                         ELSE << >>
        safe_margin == IF BadSafeMargin(raw) THEN 5 ELSE raw.v
    IN  IF ~spec.dict
        THEN <<ValidationError("$", "spec must be an object")>>
        ELSE IF ~spec.layouts.list \/ spec.layouts.items = << >>
        THEN token_errors \o <<ValidationError("$.layouts", "layouts must be a non-empty array")>>
        ELSE token_errors \o margin_errors \o CheckLayouts(spec.layouts.items, 0, safe_margin)

(***************************************************************************)
(* validate_template_spec on bounded inputs                                *)
(***************************************************************************)

MaxPlaceholders == 3

Geometry(x, y, w, h) ==
    [dict |-> TRUE, x |-> JNum(x), y |-> JNum(y), w |-> JNum(w), h |-> JNum(h)]

\* a placeholder object; id "" stands for a placeholder without id
Placeholder_(id, geometry) == [dict |-> TRUE, id |-> id, geometry |-> geometry]

NoGeometry == [dict |-> FALSE, x |-> JNull, y |-> JNull, w |-> JNull, h |-> JNull]

\* "a" and "b" share the edge x = 0.3, "b" and "f" the edge x = 0.5, "c"
\* and "d" the corner (0.5, 0.5); "c" covers a part of "a" and of "b"; the
\* placeholder without id lies inside "a"; "o" starts outside the safe margin
PlaceholderVocab ==
    {Placeholder_("a", Geometry(10, 10, 20, 20)),
     Placeholder_("b", Geometry(30, 10, 20, 20)),
     Placeholder_("c", Geometry(20, 20, 30, 30)),
     Placeholder_("d", Geometry(50, 50, 40, 40)),
     Placeholder_("f", Geometry(50, 10, 20, 20)),
     Placeholder_("z", Geometry(20, 20, 0, 20)),
     Placeholder_("n", [Geometry(20, 20, 20, 20) EXCEPT !.x = JNull]),
     Placeholder_("", Geometry(10, 10, 10, 10)),
     Placeholder_("o", Geometry(0, 0, 20, 20)),
     Placeholder_("g", NoGeometry),
     [dict |-> FALSE, id |-> "", geometry |-> NoGeometry]}

PlaceholderLists == UNION {[1..n -> PlaceholderVocab] : n \in 0..MaxPlaceholders}

JList(items) == [list |-> TRUE, items |-> items]

NotAList == [list |-> FALSE, items |-> << >>]

Layout(name, placeholders) == [dict |-> TRUE, name |-> name, placeholders |-> placeholders]

NoConstraints == [dict |-> FALSE, has_safeMargin |-> FALSE, safeMargin |-> JNull]

SafeMargin(m) == [dict |-> TRUE, has_safeMargin |-> TRUE, safeMargin |-> m]

TemplateSpec(tokens_dict, constraints, layouts) ==
    [dict |-> TRUE, tokens_dict |-> tokens_dict, constraints |-> constraints,
     layouts |-> layouts]

\* a spec with one named layout, tokens and no constraints
OneLayoutSpecs ==
    {TemplateSpec(TRUE, NoConstraints, JList(<<Layout("Title", JList(phs))>>)) :
        phs \in PlaceholderLists}

PhA == Placeholder_("a", Geometry(10, 10, 20, 20))

PhB == Placeholder_("b", Geometry(30, 10, 20, 20))

PhC == Placeholder_("c", Geometry(20, 20, 30, 30))

PhD == Placeholder_("d", Geometry(50, 50, 40, 40))

\* specs of other shapes: no object, no tokens, no layouts, a layout that
\* is no object or has no name or no placeholder list, a safeMargin that is
\* given, and two layouts
OtherSpecs ==
    {[dict |-> FALSE],
     TemplateSpec(FALSE, NoConstraints, JList(<<Layout("Title", JList(<<PhD>>))>>)),
     TemplateSpec(TRUE, NoConstraints, NotAList),
     TemplateSpec(FALSE, NoConstraints, JList(<< >>)),
     TemplateSpec(TRUE, NoConstraints, JList(<<[dict |-> FALSE]>>)),
     TemplateSpec(TRUE, NoConstraints, JList(<<Layout("  ", JList(<<PhD>>))>>)),
     TemplateSpec(TRUE, NoConstraints, JList(<<Layout("Title", NotAList)>>)),
     TemplateSpec(TRUE, NoConstraints,
        JList(<<Layout("One", JList(<<PhA, PhC>>)), Layout("Two", JList(<<PhB, PhC>>))>>)),
     TemplateSpec(TRUE, NoConstraints,
        JList(<<Layout("One", JList(<<PhA>>)), Layout("Two", JList(<<PhC>>))>>))}
    \cup {TemplateSpec(TRUE, SafeMargin(m), JList(<<Layout("Title", JList(<<ph>>))>>)) :
            m \in {JNum(0), JNum(10), JNum(50), JNull}, ph \in {PhA, PhD}}

TemplateSpecs == OneLayoutSpecs \cup OtherSpecs

InitVal ==
    /\ SlideIdle
    /\ DataIdle
    /\ RenderIdle
    /\ FontIdle
    /\ IdleButVal
    /\ vs_pc = "input"
    /\ vs_spec \in TemplateSpecs
    /\ vs_errors = << >>

\* errors = validate_template_spec(spec)
ValidateTemplateSpec ==
    /\ vs_pc = "input"
    /\ vs_errors' = validate_template_spec(vs_spec)
    /\ vs_pc' = "returned"
    /\ UNCHANGED vs_spec
    /\ UNCHANGED val_frame

NextVal == ValidateTemplateSpec

SpecVal == InitVal /\ [][NextVal]_vars

\* the placeholder has numbers for x, y, w, h and a positive size
NumericPositive(ph) ==
    /\ ph.dict
    /\ ph.geometry.dict
    /\ ph.geometry.x.num /\ ph.geometry.y.num
    /\ ph.geometry.w.num /\ ph.geometry.h.num
    /\ ph.geometry.w.v > 0 /\ ph.geometry.h.v > 0

\* the two rectangles share a region of positive area
PositiveIntersection(p, q) ==
    /\ p.x.v < q.x.v + q.w.v
    /\ q.x.v < p.x.v + p.w.v
    /\ p.y.v < q.y.v + q.h.v
    /\ q.y.v < p.y.v + p.h.v

\* the layouts of the validated spec whose placeholders are looked at
CheckedLayouts ==
    IF vs_spec.dict /\ vs_spec.layouts.list
    THEN {l \in 1..Len(vs_spec.layouts.items) :
            /\ vs_spec.layouts.items[l].dict
            /\ vs_spec.layouts.items[l].placeholders.list}
    ELSE {}

PlaceholdersOf(l) == vs_spec.layouts.items[l].placeholders.items

\* the pairs of placeholders of layout l that intersect
IntersectingPairs(l) ==
    {pair \in (1..Len(PlaceholdersOf(l))) \X (1..Len(PlaceholdersOf(l))) :
        /\ pair[1] < pair[2]
        /\ NumericPositive(PlaceholdersOf(l)[pair[1]])
        /\ NumericPositive(PlaceholdersOf(l)[pair[2]])
        /\ PositiveIntersection(PlaceholdersOf(l)[pair[1]].geometry,
                                PlaceholdersOf(l)[pair[2]].geometry)}

OverlapMessage(l, pair) ==
    "placeholders overlap: "
        \o PlaceholderId(l - 1, pair[1] - 1, PlaceholdersOf(l)[pair[1]])
        \o " and "
        \o PlaceholderId(l - 1, pair[2] - 1, PlaceholdersOf(l)[pair[2]])

\* the overlap errors reported for layout l
ReportedOverlaps(l) ==
    {k \in 1..Len(vs_errors) :
        /\ vs_errors[k].path = "$.layouts[" \o IntStr(l - 1) \o "]"
        /\ SubSeq(vs_errors[k].message, 1, 21) = "placeholders overlap:"}

\* C26: the overlap errors of a layout are one for each pair of its
\* placeholders with numeric, positive-size geometry whose rectangles share
\* a region of positive area, each naming its pair, and no other; pairs that
\* only touch along an edge or at a corner are among the pairs not reported.
C26_OverlapOncePerIntersectingPair ==
    (vs_pc = "returned") =>
        \A l \in CheckedLayouts :
            /\ Cardinality(ReportedOverlaps(l)) = Cardinality(IntersectingPairs(l))
            /\ \A pair \in IntersectingPairs(l) :
                  Cardinality({k \in ReportedOverlaps(l) :
                                  vs_errors[k].message = OverlapMessage(l, pair)})
                    = Cardinality({other \in IntersectingPairs(l) :
                                  OverlapMessage(l, other) = OverlapMessage(l, pair)})

(***************************************************************************)
(* cms_ai.validate                                                         *)
(***************************************************************************)

\* f"{error.path}: {error.message}" for every error, in order
ErrorLines(errors) ==
    [k \in 1..Len(errors) |-> errors[k].path \o ": " \o errors[k].message]

NoOutput == [ret |-> -1, stdout |-> << >>, stderr |-> << >>, validated |-> FALSE]

\* invalid JSON is answered like a spec with errors
main_invalid_json_returns_1(argv, file) ==
    IF Len(argv) # 1
    THEN [NoOutput EXCEPT !.ret = 2,
            !.stderr = <<"Usage: python -m cms_ai.validate <spec.json>">>]
    ELSE IF file.kind = "missing"
    THEN [NoOutput EXCEPT !.ret = 2, !.stderr = <<"File not found: " \o argv[1]>>]
    ELSE IF file.kind = "invalid_json"
    THEN [NoOutput EXCEPT !.ret = 1, !.stderr = <<"Invalid JSON: " \o file.error>>]
    ELSE IF validate_template_spec(file.data) # << >>
    THEN [NoOutput EXCEPT !.ret = 1, !.validated = TRUE,
            !.stderr = ErrorLines(validate_template_spec(file.data))]
    ELSE [NoOutput EXCEPT !.ret = 0, !.validated = TRUE, !.stdout = <<"OK">>]

\* main(argv) for a file that read_text can read: what it returns and prints
main(argv, file) ==
    IF Len(argv) # 1
    THEN [NoOutput EXCEPT !.ret = 2,
            !.stderr = <<"Usage: python -m cms_ai.validate <spec.json>">>]
    ELSE IF file.kind = "missing"
    THEN [NoOutput EXCEPT !.ret = 2, !.stderr = <<"File not found: " \o argv[1]>>]
    ELSE IF file.kind = "invalid_json"
    THEN [NoOutput EXCEPT !.ret = 2, !.stderr = <<"Invalid JSON: " \o file.error>>]
    ELSE IF validate_template_spec(file.data) # << >>
    THEN [NoOutput EXCEPT !.ret = 1, !.validated = TRUE,
            !.stderr = ErrorLines(validate_template_spec(file.data))]
    ELSE [NoOutput EXCEPT !.ret = 0, !.validated = TRUE, !.stdout = <<"OK">>]

MaxCliPlaceholders == 2

\* the specs a file holds: one layout of up to MaxCliPlaceholders placeholders,
\* and the specs of other shapes
CliSpecs ==
    {TemplateSpec(TRUE, NoConstraints, JList(<<Layout("Title", JList(phs))>>)) :
        phs \in UNION {[1..n -> PlaceholderVocab] : n \in 0..MaxCliPlaceholders}}
    \cup OtherSpecs

\* no file, a directory, a text that is no JSON with the decoder's message,
\* or a JSON text with the value it decodes to
Files ==
    {[kind |-> "missing"], [kind |-> "directory"],
     [kind |-> "invalid_json", error |-> "Expecting value: line 1 column 1 (char 0)"]}
    \cup {[kind |-> "json", data |-> d] : d \in CliSpecs}

Argvs == {<< >>, <<"spec.json">>, <<"spec.json", "other.json">>}

InitCli ==
    /\ SlideIdle
    /\ DataIdle
    /\ RenderIdle
    /\ FontIdle
    /\ IdleButCli
    /\ cli_pc = "input"
    /\ cli_argv \in Argvs
    /\ cli_file \in Files
    /\ cli_out = NoOutput

\* raise SystemExit(main()): main returns
Main ==
    /\ cli_pc = "input"
    /\ Len(cli_argv) = 1 => cli_file.kind # "directory"
    /\ cli_out' = main(cli_argv, cli_file)
    /\ cli_pc' = "returned"
    /\ UNCHANGED <<cli_argv, cli_file>>
    /\ UNCHANGED cli_frame

\* spec_path.read_text raises an OSError that main does not catch
MainRaises ==
    /\ cli_pc = "input"
    /\ Len(cli_argv) = 1
    /\ cli_file.kind = "directory"
    /\ cli_pc' = "raised"
    /\ UNCHANGED <<cli_argv, cli_file, cli_out>>
    /\ UNCHANGED cli_frame

NextCli == Main \/ MainRaises

SpecCli == InitCli /\ [][NextCli]_vars

\* one argument that names a file holding JSON
FileLoads == Len(cli_argv) = 1 /\ cli_file.kind = "json"

\* C27: the CLI returns 0 and prints OK exactly when the file loads and
\* validation returns no error; when validation returns errors it returns 1
\* and prints each as 'path: message'; on a wrong argument count, a missing
\* file or invalid JSON it returns 2 and validation has not run.
C27_ReturnCodes ==
    (cli_pc = "returned") =>
        /\ (cli_out.ret = 0 /\ cli_out.stdout = <<"OK">>)
              <=> (FileLoads /\ validate_template_spec(cli_file.data) = << >>)
        /\ cli_out.ret = 0 <=> cli_out.stdout # << >>
        /\ (FileLoads /\ validate_template_spec(cli_file.data) # << >>) =>
              /\ cli_out.ret = 1
              /\ Len(cli_out.stderr) = Len(validate_template_spec(cli_file.data))
              /\ \A k \in 1..Len(cli_out.stderr) :
                    cli_out.stderr[k] =
                        validate_template_spec(cli_file.data)[k].path \o ": "
                            \o validate_template_spec(cli_file.data)[k].message
        /\ (Len(cli_argv) # 1 \/ cli_file.kind \in {"missing", "invalid_json"}) =>
              /\ cli_out.ret = 2
              /\ ~cli_out.validated

\* a file whose spec has two errors was answered with 1 and both lines
C27_Witness ==
    /\ cli_pc = "returned"
    /\ FileLoads
    /\ Len(validate_template_spec(cli_file.data)) = 2
    /\ cli_out.ret = 1
    /\ Len(cli_out.stderr) = 2
    /\ cli_out.validated

(***************************************************************************)
(* DesignSystemBuilder                                                     *)
(*                                                                         *)
(* Dicts are objects on a heap, so that two names for one dict and two     *)
(* equal dicts are told apart.                                             *)
(***************************************************************************)

TypographyRoles == {"title_slide", "slide_title", "body_text", "caption"}

\* a role that is not in a typography dict
NoFont == [font_name |-> "", font_size |-> 0]

EmptyTypography == [k \in TypographyRoles |-> NoFont]

\* the catalog themes the builder is used with
BuilderThemes == {"corporate", "healthcare"}

\* DesignTheme.typography of the two themes (font_name and font_size)
StaticTypography ==
    [corporate |->
        [title_slide |-> [font_name |-> "Calibri", font_size |-> 36],
         slide_title |-> [font_name |-> "Calibri", font_size |-> 24],
         body_text |-> [font_name |-> "Calibri", font_size |-> 14],
         caption |-> [font_name |-> "Calibri", font_size |-> 11]],
     healthcare |->
        [title_slide |-> [font_name |-> "Arial", font_size |-> 34],
         slide_title |-> [font_name |-> "Arial", font_size |-> 22],
         body_text |-> [font_name |-> "Arial", font_size |-> 14],
         caption |-> [font_name |-> "Arial", font_size |-> 11]]]

\* the colors dict of a catalog theme
CatalogColors(t) ==
    [k \in ColorNames |-> IF k = "brand" THEN "" ELSE StaticCatalog[t][k]]

\* addresses of the dicts the class body creates
ColorsAddr == [corporate |-> 1, healthcare |-> 3]

TypographyAddr == [corporate |-> 2, healthcare |-> 4]

CatalogHeap ==
    <<CatalogColors("corporate"), StaticTypography["corporate"],
      CatalogColors("healthcare"), StaticTypography["healthcare"]>>

\* dict.update: the keys of `other` are set, the rest is kept
Update(dict, other, absent) ==
    [k \in DOMAIN dict |-> IF other[k] # absent THEN other[k] ELSE dict[k]]

\* from_theme: _colors = dict(theme.colors) and a copy of theme.typography
\* with a copy of every entry; both are new objects
from_theme(heap, builder, t) ==
    [heap |-> heap \o <<heap[ColorsAddr[t]], heap[TypographyAddr[t]]>>,
     builder |-> [colors |-> Len(heap) + 1, typography |-> Len(heap) + 2,
                  name |-> ThemeName[t]]]

\* with_colors: a new {} if _colors is None, then _colors.update(colors)
with_colors(heap, builder, colors) ==
    IF builder.colors = 0
    THEN [heap |-> Append(heap, Update(EmptyColors, colors, "")),
          builder |-> [builder EXCEPT !.colors = Len(heap) + 1]]
    ELSE [heap |-> [heap EXCEPT ![builder.colors] = Update(@, colors, "")],
          builder |-> builder]

\* with_typography: a new {} if _typography is None, then update
with_typography(heap, builder, typography) ==
    IF builder.typography = 0
    THEN [heap |-> Append(heap, Update(EmptyTypography, typography, NoFont)),
          builder |-> [builder EXCEPT !.typography = Len(heap) + 1]]
    ELSE [heap |-> [heap EXCEPT ![builder.typography] = Update(@, typography, NoFont)],
          builder |-> builder]

\* build: colors=self._colors or CORPORATE_THEME.colors, and the same for
\* typography; `or` takes the catalog's dict when _colors is None or empty
build(heap, builder) ==
    [name |-> builder.name,
     colors |-> IF builder.colors = 0 \/ heap[builder.colors] = EmptyColors
                THEN ColorsAddr["corporate"] ELSE builder.colors,
     typography |-> IF builder.typography = 0 \/ heap[builder.typography] = EmptyTypography
                    THEN TypographyAddr["corporate"] ELSE builder.typography]

MaxBuilderSteps == 3

\* colors arguments of with_colors
ColorOverrides ==
    {EmptyColors,
     [EmptyColors EXCEPT !["primary"] = "#FF0000"],
     [EmptyColors EXCEPT !["primary"] = "#FF0000", !["brand"] = "#00FF00"]}

\* typography arguments of with_typography
TypographyOverrides ==
    {[EmptyTypography EXCEPT !["title_slide"] = [font_name |-> "Arial", font_size |-> 40]]}

InitBld ==
    /\ SlideIdle
    /\ DataIdle
    /\ RenderIdle
    /\ FontIdle
    /\ IdleButBld
    /\ db_steps = 0
    /\ db_heap = CatalogHeap
    /\ db_builder = [colors |-> 0, typography |-> 0, name |-> "Custom"]
    /\ db_built = << >>
    /\ db_last = [op |-> "", colors |-> EmptyColors]

\* builder.from_theme(theme)
FromTheme ==
    /\ db_steps < MaxBuilderSteps
    /\ \E t \in BuilderThemes :
        /\ db_heap' = from_theme(db_heap, db_builder, t).heap
        /\ db_builder' = from_theme(db_heap, db_builder, t).builder
    /\ db_last' = [op |-> "from_theme", colors |-> EmptyColors]
    /\ db_steps' = db_steps + 1
    /\ UNCHANGED db_built
    /\ UNCHANGED bld_frame

\* builder.with_colors(colors)
WithColors ==
    /\ db_steps < MaxBuilderSteps
    /\ \E colors \in ColorOverrides :
        /\ db_heap' = with_colors(db_heap, db_builder, colors).heap
        /\ db_builder' = with_colors(db_heap, db_builder, colors).builder
        /\ db_last' = [op |-> "with_colors", colors |-> colors]
    /\ db_steps' = db_steps + 1
    /\ UNCHANGED db_built
    /\ UNCHANGED bld_frame

\* builder.with_typography(typography)
WithTypography ==
    /\ db_steps < MaxBuilderSteps
    /\ \E typography \in TypographyOverrides :
        /\ db_heap' = with_typography(db_heap, db_builder, typography).heap
        /\ db_builder' = with_typography(db_heap, db_builder, typography).builder
    /\ db_last' = [op |-> "with_typography", colors |-> EmptyColors]
    /\ db_steps' = db_steps + 1
    /\ UNCHANGED db_built
    /\ UNCHANGED bld_frame

\* theme = builder.build()
Build ==
    /\ db_steps < MaxBuilderSteps
    /\ db_built' = Append(db_built, build(db_heap, db_builder))
    /\ db_last' = [op |-> "build", colors |-> EmptyColors]
    /\ db_steps' = db_steps + 1
    /\ UNCHANGED <<db_heap, db_builder>>
    /\ UNCHANGED bld_frame

\* the caller changes a built theme: theme.colors['primary'] = '#000000'
ChangeBuiltColors ==
    /\ db_steps < MaxBuilderSteps
    /\ \E i \in 1..Len(db_built) :
        db_heap' = [db_heap EXCEPT ![db_built[i].colors]["primary"] = "#000000"]
    /\ db_last' = [op |-> "change", colors |-> EmptyColors]
    /\ db_steps' = db_steps + 1
    /\ UNCHANGED <<db_builder, db_built>>
    /\ UNCHANGED bld_frame

NextBld == FromTheme \/ WithColors \/ WithTypography \/ Build \/ ChangeBuiltColors

SpecBld == InitBld /\ [][NextBld]_vars

\* the dicts of the catalog themes hold what the class body gave them
CatalogIntact ==
    \A t \in BuilderThemes :
        /\ db_heap[ColorsAddr[t]] = CatalogColors(t)
        /\ db_heap[TypographyAddr[t]] = StaticTypography[t]

\* no built theme has a catalog theme's colors dict as its colors
BuiltColorsOwn ==
    \A i \in 1..Len(db_built) :
        \A t \in BuilderThemes : db_built[i].colors # ColorsAddr[t]

\* C28: whatever is called on the builder and on the themes it built, the
\* colors and typography of the catalog themes stay as they were, no built
\* theme (one built without from_theme included) has a catalog theme's colors
\* dict as its own, and with_colors on a builder that has colors sets the
\* given keys and keeps the others.
C28_BuilderIsolatedFromCatalog ==
    [][/\ CatalogIntact'
       /\ BuiltColorsOwn'
       /\ (db_last'.op = "with_colors" /\ db_builder.colors # 0) =>
             \A k \in ColorNames :
                 db_heap'[db_builder.colors][k] =
                     IF db_last'.colors[k] # "" THEN db_last'.colors[k]
                     ELSE db_heap[db_builder.colors][k]]_vars

(***************************************************************************)
(* ProposalTemplateProcessor.customize_content                             *)
(*                                                                         *)
(* Lists are objects on a heap that is a function of their address; the    *)
(* address says who created the list: "json1" is the content of the first  *)
(* slide of json_data, "copy1" its deep copy, "content1" and "append1" the *)
(* lists of the customization of slide number 1, "new1" the list           *)
(* setdefault creates for the first slide.  "" is a key that is missing.   *)
(***************************************************************************)

MaxSlides == 2

CustomKeys == {"1", "2"}

Addrs ==
    {kind \o IntStr(i) : kind \in {"json", "copy", "new"}, i \in 1..MaxSlides}
        \cup {kind \o k : kind \in {"content", "append"}, k \in CustomKeys}

\* a customization that is not given
NoCustom == [given |-> FALSE, has_title |-> FALSE, title |-> "",
             content |-> "", append_content |-> ""]

\* copy.deepcopy(json_data): slide k and the slides after it, each with a
\* new list for its content
RECURSIVE DeepCopySlides(_, _, _)
DeepCopySlides(heap, slide_list, k) ==
    IF k > Len(slide_list) THEN [heap |-> heap, slides |-> << >>]
    ELSE LET rest == DeepCopySlides(heap, slide_list, k + 1)
         IN  IF slide_list[k].content = ""
             THEN [heap |-> rest.heap, slides |-> <<slide_list[k]>> \o rest.slides]
             ELSE [heap |-> [rest.heap EXCEPT !["copy" \o IntStr(k)] = heap[slide_list[k].content]],
                   slides |-> <<[slide_list[k] EXCEPT !.content = "copy" \o IntStr(k)]>>
                                \o rest.slides]

\* slide['title'] = ..., slide['content'] = slide_custom['content']: the
\* slide refers to the customization's list
Assigned(slide, slide_custom) ==
    [slide EXCEPT
        !.title = IF slide_custom.has_title THEN slide_custom.title ELSE @,
        !.content = IF slide_custom.content # "" THEN slide_custom.content ELSE @]

\* slide.setdefault('content', []): the address of the slide's list
ContentOrNew(slide, k) == IF slide.content = "" THEN "new" \o IntStr(k) ELSE slide.content

\* one round of `for slide in slides` for slide k
CustomizeSlide(heap, slide, k, customizations) ==
    LET slide_number == slide.slide_number
        slide_custom == IF slide_number # 0 /\ IntStr(slide_number) \in CustomKeys
                        THEN customizations[IntStr(slide_number)]
                        ELSE NoCustom
    IN  IF ~slide_custom.given THEN [heap |-> heap, slide |-> slide]
        ELSE IF slide_custom.append_content = ""
        THEN [heap |-> heap, slide |-> Assigned(slide, slide_custom)]
        ELSE [heap |-> [heap EXCEPT ![ContentOrNew(Assigned(slide, slide_custom), k)] =
                            @ \o heap[slide_custom.append_content]],
              slide |-> [Assigned(slide, slide_custom) EXCEPT
                            !.content = ContentOrNew(Assigned(slide, slide_custom), k)]]

\* the loop from slide k on, each round on the heap the round before left
RECURSIVE CustomizeSlides(_, _, _, _)
CustomizeSlides(heap, slide_list, k, customizations) ==
    IF k > Len(slide_list) THEN [heap |-> heap, slides |-> << >>]
    ELSE LET rest == CustomizeSlides(
                        CustomizeSlide(heap, slide_list[k], k, customizations).heap,
                        slide_list, k + 1, customizations)
         IN  [heap |-> rest.heap,
              slides |-> <<CustomizeSlide(heap, slide_list[k], k, customizations).slide>>
                            \o rest.slides]

customize_content(heap, json_data, customizations) ==
    CustomizeSlides(DeepCopySlides(heap, json_data, 1).heap,
                    DeepCopySlides(heap, json_data, 1).slides, 1, customizations)

\* slide k of json_data: with or without slide_number, with or without content
SlidesAt(k) ==
    {[slide_number |-> n, title |-> "Slide", content |-> c] :
        n \in {0} \cup 1..MaxSlides, c \in {"", "json" \o IntStr(k)}}

JsonSlides ==
    UNION {{s \in [1..n -> UNION {SlidesAt(k) : k \in 1..MaxSlides}] :
                \A k \in 1..n : s[k] \in SlidesAt(k)} : n \in 1..MaxSlides}

CustomsAt(key) ==
    {NoCustom}
    \cup {[given |-> TRUE, has_title |-> t, title |-> IF t THEN "New title" ELSE "",
           content |-> c, append_content |-> a] :
            t \in BOOLEAN, c \in {"", "content" \o key}, a \in {"", "append" \o key}}

Customizations ==
    {c \in [CustomKeys -> UNION {CustomsAt(key) : key \in CustomKeys}] :
        \A key \in CustomKeys : c[key] \in CustomsAt(key)}

\* the lists the arguments hold before the call
ArgumentHeap(slide_list, customizations) ==
    [a \in Addrs |->
        IF \E k \in 1..Len(slide_list) : slide_list[k].content = a THEN <<"Details here">>
        ELSE IF \E key \in CustomKeys : customizations[key].content = a THEN <<"Replaced">>
        ELSE IF \E key \in CustomKeys : customizations[key].append_content = a
             THEN <<"Extra item">>
        ELSE << >>]

InitCc ==
    /\ SlideIdle
    /\ DataIdle
    /\ RenderIdle
    /\ FontIdle
    /\ IdleButCc
    /\ cc_pc = "input"
    /\ cc_json \in JsonSlides
    /\ cc_cust \in Customizations
    /\ cc_heap = ArgumentHeap(cc_json, cc_cust)
    /\ cc_result = << >>

\* result = ProposalTemplateProcessor.customize_content(json_data, customizations)
CustomizeContent ==
    /\ cc_pc = "input"
    /\ cc_heap' = customize_content(cc_heap, cc_json, cc_cust).heap
    /\ cc_result' = customize_content(cc_heap, cc_json, cc_cust).slides
    /\ cc_pc' = "returned"
    /\ UNCHANGED <<cc_json, cc_cust>>
    /\ UNCHANGED cc_frame

NextCc == CustomizeContent

SpecCc == InitCc /\ [][NextCc]_vars

\* the lists json_data holds
JsonLists == {cc_json[k].content : k \in 1..Len(cc_json)} \ {""}

\* the lists the customizations argument holds
CustomLists ==
    ({cc_cust[key].content : key \in CustomKeys}
        \cup {cc_cust[key].append_content : key \in CustomKeys}) \ {""}

\* C29: the call leaves json_data and customizations as they were: the dicts
\* and every list they hold, also when a customization carries both
\* 'content' and 'append_content'; what it returns shares no list with
\* json_data.
C29_ArgumentsUnchanged ==
    [][(cc_pc = "input" /\ cc_pc' = "returned") =>
          /\ cc_json' = cc_json
          /\ cc_cust' = cc_cust
          /\ \A a \in JsonLists : cc_heap'[a] = cc_heap[a]
          /\ \A a \in CustomLists : cc_heap'[a] = cc_heap[a]
          /\ \A k \in 1..Len(cc_result') : cc_result'[k].content \notin JsonLists]_vars

(***************************************************************************)
(* AIDesignGenerator.generate_color_scheme, non-mock mode                  *)
(*                                                                         *)
(* A dict is the sequence of its items in order; an item is its key, its   *)
(* value and whether the value is a str.                                   *)
(***************************************************************************)

Item(key, value) == [key |-> key, str |-> TRUE, v |-> value]

\* an item whose value is a JSON number
NumberItem(key) == [key |-> key, str |-> FALSE, v |-> "123"]

HexChars == DigitChars \cup {Ch("abcdefABCDEF", k) : k \in 1..12}

\* re.match(r'^#[0-9A-Fa-f]{6}$', color): `$` matches at the end of the
\* string and also just before a newline that ends it
HexColorMatch(color) ==
    LET body == IF Len(color) = 8 /\ Ch(color, 8) = "\n" THEN SubSeq(color, 1, 7)
                ELSE color
    IN  /\ Len(body) = 7
        /\ Ch(body, 1) = "#"
        /\ \A i \in 2..7 : Ch(body, i) \in HexChars

required_keys == <<"primary", "secondary", "background", "text", "accent", "light">>

HasKey(color_data, key) == \E k \in 1..Len(color_data) : color_data[k].key = key

\* all required keys are there and every value is a str that matches
ValidColorData(color_data) ==
    /\ \A r \in 1..Len(required_keys) : HasKey(color_data, required_keys[r])
    /\ \A k \in 1..Len(color_data) :
          color_data[k].str /\ HexColorMatch(color_data[k].v)

TechFallback ==
    <<Item("primary", "#1E88E5"), Item("secondary", "#42A5F5"),
      Item("background", "#FFFFFF"), Item("text", "#263238"),
      Item("accent", "#00ACC1"), Item("light", "#E3F2FD")>>

DefaultFallback ==
    <<Item("primary", "#2E75B6"), Item("secondary", "#8C8C8C"),
      Item("background", "#FFFFFF"), Item("text", "#1F1F1F"),
      Item("accent", "#00B050"), Item("light", "#F8F9FA")>>

\* the scheme returned when all attempts failed
Fallback(industry) ==
    IF Contains(Lower(IF industry = "" THEN "government" ELSE industry), "tech")
    THEN TechFallback ELSE DefaultFallback

\* range(3)
Attempts == 3

\* the palette of a response whose primary entry is the given item
Palette(primary) ==
    <<primary, Item("secondary", "#68D391"), Item("background", "#FFFFFF"),
      Item("text", "#2D3748"), Item("accent", "#4299E1"), Item("light", "#F0FFF4")>>

\* what a response decodes to: palettes with a good, a lower-case, a
\* newline-ended, a short, a named, a non-hex and a non-str primary value,
\* a palette with a seventh entry, and a dict without 'light'
ColorDatas ==
    {Palette(Item("primary", v)) :
        v \in {"#48BB78", "#1a2b3c", "#48BB78\n", "#FFF", "blue", "#GGGGGG", "#48BB781"}}
    \cup {Palette(NumberItem("primary")),
          Palette(Item("primary", "#48BB78")) \o <<Item("extra", "#123456")>>,
          Palette(Item("primary", "#48BB78")) \o <<Item("extra", "none")>>,
          SubSeq(Palette(Item("primary", "#48BB78")), 1, 5)}

\* what one request can bring: an exception (post, raise_for_status,
\* response.json or the result's shape), a content without JSON object, a
\* JSON text that json.loads rejects, or a dict
Responses ==
    {[kind |-> k, color_data |-> << >>] : k \in {"exception", "no_json", "decode_error"}}
    \cup {[kind |-> "dict", color_data |-> d] : d \in ColorDatas}

StyleIndustries == {"", "Technology", "healthcare"}

InitCs ==
    /\ SlideIdle
    /\ DataIdle
    /\ RenderIdle
    /\ FontIdle
    /\ IdleButCs
    /\ cs_pc = "running"
    /\ cs_attempt = 0
    /\ cs_requests = 0
    /\ cs_industry \in StyleIndustries
    /\ cs_last = [kind |-> "none", color_data |-> << >>]
    /\ cs_result = << >>

\* one round of `for attempt in range(3)` whose response is a dict that
\* passes validation: `return color_data`
AttemptSucceeds ==
    /\ cs_pc = "running"
    /\ cs_attempt < Attempts
    /\ \E response \in Responses :
        /\ response.kind = "dict"
        /\ ValidColorData(response.color_data)
        /\ cs_last' = response
        /\ cs_result' = response.color_data
    /\ cs_requests' = cs_requests + 1
    /\ cs_pc' = "returned"
    /\ UNCHANGED <<cs_attempt, cs_industry>>
    /\ UNCHANGED cs_frame

\* one round that returns nothing: an exception, no JSON, a decode error or
\* a dict that fails validation; after the last round the fallback is returned
AttemptFails ==
    /\ cs_pc = "running"
    /\ cs_attempt < Attempts
    /\ \E response \in Responses :
        /\ response.kind = "dict" => ~ValidColorData(response.color_data)
        /\ cs_last' = response
    /\ cs_requests' = cs_requests + 1
    /\ cs_attempt' = cs_attempt + 1
    /\ IF cs_attempt + 1 = Attempts
       THEN cs_pc' = "returned" /\ cs_result' = Fallback(cs_industry)
       ELSE cs_pc' = "running" /\ cs_result' = cs_result
    /\ UNCHANGED cs_industry
    /\ UNCHANGED cs_frame

NextCs == AttemptSucceeds \/ AttemptFails

SpecCs == InitCs /\ [][NextCs]_vars

\* '#' plus six hexadecimal digits
HexColor(value) ==
    /\ Len(value) = 7
    /\ Ch(value, 1) = "#"
    /\ \A i \in 2..7 : Ch(value, i) \in HexChars

\* C30: at most 3 requests are sent; what is returned holds the six keys and
\* every value of it is '#' plus six hexadecimal digits; after three failed
\* attempts it is a built-in fallback palette.
C30_AtMostThreeRequestsValidPalette ==
    /\ cs_requests <= 3
    /\ (cs_pc = "returned") =>
          /\ \A r \in 1..Len(required_keys) : HasKey(cs_result, required_keys[r])
          /\ \A k \in 1..Len(cs_result) : cs_result[k].str /\ HexColor(cs_result[k].v)
          /\ cs_attempt = Attempts => cs_result \in {TechFallback, DefaultFallback}

====
